---- MODULE Spec2Model ----
(***************************************************************************)
(* Model of the execution path of the flash-arbitrage bot:                 *)
(*   src/core/executor.py     V3Executor, PrivateTransactionManager        *)
(*   src/core/executor_v3.py  V3ArbitrageExecutor                          *)
(*                                                                         *)
(* One executor object (of either class, fixed at construction) owns a     *)
(* nonce cache and talks to a chain through JSON-RPC.  The chain is the    *)
(* environment: it accepts or rejects raw transactions, mines them, and    *)
(* answers eth_call simulations.  Threads call the executor's entry points *)
(* and advance one RPC or one lock-protected section at a time.            *)
(*                                                                         *)
(* Units.  Time is counted in ticks of half a second (the poll sleep of    *)
(* send_and_monitor, executor.py:1334).  Fees are counted in units of      *)
(* 10^6 wei, so that 1 gwei = 1000 units and all products stay inside      *)
(* TLC's 32-bit integers.                                                  *)
(***************************************************************************)
EXTENDS Integers, Sequences, FiniteSets, TLC

(***************************************************************************)
(* Bounds of the model (not program constants).                            *)
(***************************************************************************)
\* executions (calls of an entry point) started in one run
MaxExec == 2
\* calls made in a run to an executor whose broadcast step branches widely
\* (private submission, monitoring)
MaxExecWide == 1
\* no idle time passes after this tick (sleeps inside a call still do)
MaxTime == 12

(***************************************************************************)
(* Program constants.                                                      *)
(***************************************************************************)
\* time.sleep(0.5): one tick; two ticks are one second
TicksPerSecond == 2
\* fee units per gwei
GweiUnits == 1000
\* executor.py:62 and executor_v3.py:126 (seconds)
NONCE_CACHE_TTL == 2
V3ARB_NONCE_TTL == 5
\* executor.py:95-111 (seconds, percent, gwei, count)
TX_INITIAL_WAIT == 5
TX_SPEEDUP_INTERVAL == 3
TX_SPEEDUP_GAS_BUMP_PCT == 15
TX_MAX_GAS_GWEI == 50
TX_MAX_GAS_WEI == TX_MAX_GAS_GWEI * GweiUnits
TX_MAX_SPEEDUP_ATTEMPTS == 5
TX_TOTAL_TIMEOUT == 120
\* executor.py:69, 72
SLIPPAGE_TOLERANCE_BPS == 50
ENFORCE_MIN_AMOUNT_OUT == TRUE
\* executor.py:53-55, 59 (gas limit, gwei, seconds, multiplier)
DEFAULT_GAS_LIMIT == 500000
MAX_GAS_PRICE_GWEI == 10
TX_TIMEOUT == 60
SNIPER_MODE_MULTIPLIER == 2
\* executor_v3.py:40 (DEFAULT_GAS_LIMIT of V3ArbitrageExecutor)
V3ARB_GAS_LIMIT == 600000
\* Python's None for an integer-valued field
None == -1

VARIABLES
    \* ---- configuration, fixed at construction / process start
    cfg,
    \* ---- executor object
    _nonce,            \* V3Executor._nonce / V3ArbitrageExecutor._pending_nonce
    _nonce_time,       \* V3Executor._nonce_time / _last_nonce_fetch
    stats,             \* tx_count, success_count, total_profit, private_tx_count, failed_count
    _current_rpc_index,\* PrivateTransactionManager._current_rpc_index
    \* ---- threads
    pc,                \* position of each thread inside its call
    loc,               \* locals of each thread's current call
    result,            \* the result object the last call of each thread returned
    \* ---- environment
    now,               \* time.time() in ticks
    sent,              \* raw transactions the node accepted, by hash 1..Len(sent)
    receipts,          \* hash -> receipt status, for mined transactions
    \* ---- history
    log,               \* calls started, the nonces issued to them, and the node's
                       \* answer to the last replacement
    \* ---- scanner and bot loop (scanner_v3.py, multicall.py, main_v3.py)
    pools,             \* V3ArbitrageScanner.pools: the mutable fields of each pool
    scan,              \* position and locals of the bot's scan cycle
    \* ---- calculator (calculator.py)
    calc,              \* the last call of a search or calculator function
    \* ---- the bot of main.py
    bot,               \* FlashArbBot: its loop position, cooldown list and counters
    \* ---- network manager (network.py)
    net                \* NetworkManager: endpoints, health, state, the call in progress

\* the variables of the scanner and the bot loop, and those of the executor
scanVars == <<pools, scan, calc, bot, net>>
execVars == <<cfg, _nonce, _nonce_time, stats, _current_rpc_index, pc, loc, result,
              sent, receipts, log>>
vars == <<cfg, _nonce, _nonce_time, stats, _current_rpc_index, pc, loc, result,
          now, sent, receipts, log, scanVars>>


Threads == {1, 2}
Min(a, b) == IF a < b THEN a ELSE b
Max(a, b) == IF a > b THEN a ELSE b
Sec(s) == s * TicksPerSecond

(***************************************************************************)
(* Slippage floor and swap data.                                           *)
(***************************************************************************)
\* V3Executor._calculate_min_amount_out
_calculate_min_amount_out(expected_amount, slippage_bps) ==
    IF expected_amount <= 0 THEN 0
    ELSE LET min_out == (expected_amount * (10000 - slippage_bps)) \div 10000
         IN  IF ENFORCE_MIN_AMOUNT_OUT THEN Max(1, min_out) ELSE min_out

\* V3Executor.execute, the min_amount_out it puts into swapData
ExecuteMinAmountOut(min_amount_out, expected_swap_output, amount) ==
    IF min_amount_out <= 0 /\ expected_swap_output > 0
    THEN _calculate_min_amount_out(expected_swap_output, SLIPPAGE_TOLERANCE_BPS)
    ELSE IF min_amount_out <= 0 /\ ENFORCE_MIN_AMOUNT_OUT
         THEN amount \div 1000
         ELSE min_amount_out

\* V3Executor._encode_swap_data: (address, uint24, uint256 min_amount_out)
_encode_swap_data(target_token, target_fee, min_amount_out) ==
    [layout |-> "token,fee,minOut", token |-> target_token, fee |-> target_fee,
     min_out |-> min_amount_out]

\* V3ArbitrageExecutor._encode_user_data over _encode_v3_swap_data:
\* (uint8 swapType, (address, address, uint24)); no minimum-output field
_encode_user_data(target_token, target_fee) ==
    [layout |-> "swapType,(tokenIn,tokenOut,fee)", token |-> target_token,
     fee |-> target_fee, min_out |-> None]

\* calldata of startArbitrage(pool, token, amount, swapData)
StartArbitrage(amount, swap_data) ==
    [fn |-> "startArbitrage", pool |-> "pool", token |-> "WETH",
     amount |-> amount, swapData |-> swap_data]

(***************************************************************************)
(* Fee construction.  A gas-parameter dict is a record; a key the dict     *)
(* does not hold is None.                                                  *)
(***************************************************************************)
Eip1559(max_fee, priority_fee) ==
    [maxFeePerGas |-> max_fee, maxPriorityFeePerGas |-> priority_fee, gasPrice |-> None]
Legacy(gas_price) ==
    [maxFeePerGas |-> None, maxPriorityFeePerGas |-> None, gasPrice |-> gas_price]
\* gas_params.get("maxFeePerGas", gas_params.get("gasPrice", 0))
FeeOf(gp) == IF gp.maxFeePerGas # None THEN gp.maxFeePerGas ELSE gp.gasPrice

\* What the node answers to the fee queries: base_fee = None when the block
\* carries no baseFeePerGas, priority_fee = None when eth_maxPriorityFeePerGas
\* raises.
GasEnvs ==
    { [base_fee |-> 8000, priority_fee |-> 100, gas_price |-> 8100],
      [base_fee |-> None, priority_fee |-> None, gas_price |-> 10000] }

\* a node whose eth_maxPriorityFeePerGas suggests 1 gwei
HighPriorityEnv == [base_fee |-> 8000, priority_fee |-> 1000, gas_price |-> 9000]

\* V3Executor._get_gas_params_aggressive
_get_gas_params_aggressive(ge, max_gas_wei) ==
    LET base_fee == IF ge.base_fee = 0 THEN 10 ELSE ge.base_fee
        cached   == IF ge.priority_fee = None \/ ge.priority_fee = 0 THEN 1
                    ELSE ge.priority_fee
        priority == cached * SNIPER_MODE_MULTIPLIER
        max_fee  == base_fee * 2 + priority
    IN  IF max_fee > max_gas_wei
        THEN Eip1559(max_gas_wei, (priority * max_gas_wei) \div max_fee)
        ELSE Eip1559(max_fee, priority)

\* V3Executor._get_gas_params_legacy
_get_gas_params_legacy(ge, max_gas_wei) ==
    Legacy(Min(ge.gas_price * SNIPER_MODE_MULTIPLIER, max_gas_wei))

\* V3Executor._get_gas_params
_get_gas_params(ge, max_gas_wei) ==
    IF ge.base_fee # None THEN _get_gas_params_aggressive(ge, max_gas_wei)
    ELSE _get_gas_params_legacy(ge, max_gas_wei)

\* V3ArbitrageExecutor._get_gas_params(sniper_mode=True)
V3Arb_get_gas_params(ge, max_allowed) ==
    IF ge.base_fee # None
    THEN LET priority == IF ge.priority_fee = None THEN (10 * 12) \div 10
                         ELSE Max((ge.priority_fee * 12) \div 10, 10)
             max_fee  == ge.base_fee * 2 + priority
         IN  Eip1559(Min(max_fee, max_allowed), priority)
    ELSE Legacy(Min((ge.gas_price * 12) \div 10, max_allowed))

\* a bump that never looks at the cap
_bump_gas_price_NoCap(current_gas_params, bump_pct_x10) ==
    IF current_gas_params.maxFeePerGas # None
    THEN <<Eip1559((current_gas_params.maxFeePerGas * (1000 + bump_pct_x10)) \div 1000,
                   (current_gas_params.maxPriorityFeePerGas * (1000 + bump_pct_x10)) \div 1000),
           TRUE>>
    ELSE <<Legacy((current_gas_params.gasPrice * (1000 + bump_pct_x10)) \div 1000), TRUE>>

\* V3Executor._bump_gas_price; bump_pct_x10 is the percentage times ten
\* (150 = 15.0 %, 225 = 22.5 %).  Returns <<new_gas_params, is_within_cap>>.
_bump_gas_price(current_gas_params, bump_pct_x10) ==
    IF current_gas_params.maxFeePerGas # None
    THEN LET new_max_fee == (current_gas_params.maxFeePerGas * (1000 + bump_pct_x10)) \div 1000
             new_priority_fee ==
                 (current_gas_params.maxPriorityFeePerGas * (1000 + bump_pct_x10)) \div 1000
         IN  IF new_max_fee > TX_MAX_GAS_WEI THEN <<current_gas_params, FALSE>>
             ELSE <<Eip1559(new_max_fee, new_priority_fee), TRUE>>
    ELSE LET new_gas_price == (current_gas_params.gasPrice * (1000 + bump_pct_x10)) \div 1000
         IN  IF new_gas_price > TX_MAX_GAS_WEI THEN <<current_gas_params, FALSE>>
             ELSE <<Legacy(new_gas_price), TRUE>>

(***************************************************************************)
(* Transactions.                                                           *)
(***************************************************************************)
\* V3Executor._build_access_list: pool, token0, token1, router, own contract
_build_access_list == <<"pool", "WETH", "target", "router", "contract">>
NoAccessList == <<>>

\* contract.functions.startArbitrage(...).build_transaction(tx_params)
BuildTransaction(data, nonce, gas, gas_params, access_list) ==
    [from |-> "signer", to |-> "contract", value |-> 0, data |-> data,
     nonce |-> nonce, gas |-> gas, chainId |-> 8453, gp |-> gas_params,
     accessList |-> access_list]

\* a replacement that forgets the access list
_create_replacement_tx_NoAccessList(original_tx, new_gas_params, nonce) ==
    [from |-> original_tx.from, to |-> original_tx.to, value |-> original_tx.value,
     data |-> original_tx.data, nonce |-> nonce, gas |-> original_tx.gas,
     chainId |-> original_tx.chainId, gp |-> new_gas_params, accessList |-> NoAccessList]

\* V3Executor._create_replacement_tx (before signing)
_create_replacement_tx(original_tx, new_gas_params, nonce) ==
    [from |-> original_tx.from, to |-> original_tx.to, value |-> original_tx.value,
     data |-> original_tx.data, nonce |-> nonce, gas |-> original_tx.gas,
     chainId |-> original_tx.chainId, gp |-> new_gas_params,
     accessList |-> original_tx.accessList]

(***************************************************************************)
(* The chain as the node shows it.                                         *)
(***************************************************************************)
Hashes == DOMAIN sent
Mined == DOMAIN receipts
\* eth_getTransactionCount(address, "latest")
ConfirmedCount == Cardinality({sent[h].tx.nonce : h \in Mined})
RECURSIVE FirstGap(_)
FirstGap(n) ==
    IF \E h \in Hashes \ Mined : sent[h].tx.nonce = n /\ ~sent[h].private
    THEN FirstGap(n + 1) ELSE n
\* eth_getTransactionCount(address, "pending"): the confirmed count plus the
\* run of consecutive nonces waiting in the public pool
PendingCount == FirstGap(ConfirmedCount)

\* V3Executor._check_tx_status: <<is_confirmed, receipt status>>
_check_tx_status(tx_hash) ==
    IF tx_hash \in Mined THEN <<TRUE, receipts[tx_hash]>> ELSE <<FALSE, None>>

\* a loop that looks at the newest hash only
FirstConfirmed_NewestOnly(hashes) ==
    IF hashes # <<>> /\ _check_tx_status(hashes[Len(hashes)])[1]
    THEN hashes[Len(hashes)] ELSE None

\* send_and_monitor's "for tried_hash in tx_hashes_tried" (lines 1318-1320,
\* 1379-1381, 1405-1407): the first hash of the list for which
\* _check_tx_status reports a receipt, None when there is none
RECURSIVE FirstConfirmed(_)
FirstConfirmed(hashes) ==
    IF hashes = <<>> THEN None
    ELSE IF _check_tx_status(Head(hashes))[1] THEN Head(hashes)
         ELSE FirstConfirmed(Tail(hashes))

\* Answers eth_sendRawTransaction may give to tx: "ok" (accepted, a hash is
\* returned), "nonce too low" once the nonce is mined, "replacement
\* underpriced" when a pending transaction holds the nonce and tx does not
\* raise its fee by the node's price bump (cfg.price_bump percent), or
\* another error (the request failed).  A transaction whose priority fee is
\* above its max fee is never accepted.
Underpriced(tx) ==
    \E h \in Hashes \ Mined :
        /\ sent[h].tx.nonce = tx.nonce
        /\ FeeOf(tx.gp) * 100 < FeeOf(sent[h].tx.gp) * (100 + cfg.price_bump)
SendOutcomes(tx) ==
    IF tx.gp.maxFeePerGas # None /\ tx.gp.maxPriorityFeePerGas > tx.gp.maxFeePerGas
    THEN {"error"}
    ELSE IF tx.nonce < ConfirmedCount THEN {"nonce too low", "error"}
    ELSE IF Underpriced(tx) THEN {"replacement underpriced", "error"}
    ELSE {"ok", "error"}

(***************************************************************************)
(* Configurations: the class of the executor object and the environment    *)
(* switches read at import (executor.py:79, 92, 118, 129) and the          *)
(* constructor's max_gas_gwei.                                             *)
(***************************************************************************)
\* expected_profit as the callers pass it (execute, line 752)
EXPECTED_PROFIT == 1
\* Arguments the callers pass to execute: one call for each way execute
\* arrives at min_amount_out (lines 781-786)
Calls ==
    { [amount |-> 999,  min_amount_out |-> 0, expected_swap_output |-> 0],
      [amount |-> 5000, min_amount_out |-> 0, expected_swap_output |-> 400],
      [amount |-> 5000, min_amount_out |-> 7, expected_swap_output |-> 0] }

\* calls: how many calls the run makes; args, gas_envs: what the callers pass
\* and what the node's fee market answers
Config(cls, strict, speedup, private, bundle_rpc, max_gas_gwei, calls) ==
    [cls |-> cls, STRICT_SIMULATION_CHECK |-> strict, TX_SPEEDUP_ENABLED |-> speedup,
     PRIVATE_TX_ENABLED |-> private, BUNDLE_SIMULATION_RPC |-> bundle_rpc,
     max_gas_wei |-> max_gas_gwei * GweiUnits, calls |-> calls, threads |-> {1},
     args |-> Calls, gas_envs |-> GasEnvs, price_bump |-> 10]
\* PRIVATE_RPC_ENDPOINTS without the unset PRIVATE_RPC_URL (executor.py:122-126, 224)
NumPrivateRpcs == 2

\* The executors considered: V3Executor with monitoring (at the default fee
\* ceiling against a node with the default price bump of 10 %, and at a
\* 40 gwei ceiling against a node that asks 25 %), with the standard
\* broadcast, with private submission; and main_v3's V3ArbitrageExecutor
\* (MAX_GAS_PRICE_GWEI = 1.0, executor_v3.py:41)
Configs ==
    { Config("V3Executor", TRUE, TRUE, FALSE, FALSE, MAX_GAS_PRICE_GWEI, MaxExecWide),
      [Config("V3Executor", TRUE, TRUE, FALSE, FALSE, 40, MaxExecWide)
          EXCEPT !.price_bump = 25],
      Config("V3Executor", FALSE, FALSE, FALSE, FALSE, MAX_GAS_PRICE_GWEI, MaxExec),
      Config("V3Executor", TRUE, FALSE, TRUE, TRUE, MAX_GAS_PRICE_GWEI, MaxExecWide),
      [Config("V3ArbitrageExecutor", FALSE, FALSE, FALSE, FALSE, 1, MaxExec)
          EXCEPT !.gas_envs = GasEnvs \cup {HighPriorityEnv}] }


(***************************************************************************)
(* Locals and results.                                                     *)
(***************************************************************************)
\* a pre-flight eth_call that returned: its calldata, its sender, and what the
\* counterparty's balance of the borrowed token would gain by the call
SimCall(data, from, delta) == [passed |-> TRUE, data |-> data, from |-> from, delta |-> delta]
NoSim == [passed |-> FALSE, data |-> StartArbitrage(0, _encode_user_data("none", 0)),
          from |-> "none", delta |-> 0]
SimDeltas == {-1, 0, 1}
NoTx == BuildTransaction(StartArbitrage(0, _encode_user_data("none", 0)), None, 0,
                         Legacy(0), NoAccessList)
NoLoc ==
    [entry |-> "none", lt |-> 0, dry_run |-> FALSE, amount |-> 0,
     swap_data |-> _encode_user_data("none", 0), nonce |-> None,
     gas_params |-> Legacy(0), tx |-> NoTx, sim |-> NoSim,
     tx_hash_hex |-> None, tx_mode_used |-> "public", bundle |-> "none",
     \* the private endpoints send_private_transaction posted to, in order
     private_posted |-> <<>>,
     \* send_and_monitor
     tx_hashes_tried |-> <<>>, current_gas_params |-> Legacy(0), speedup_count |-> 0,
     attempt |-> 0, start_time |-> 0, wait_end |-> 0, current_tx_hash |-> None]

\* ExecutionResult / V3ExecutionResult, with the nonce the call held and the
\* path it returned on
Result(l, success, tx_hash, error, path) ==
    [lt |-> l.lt, entry |-> l.entry, nonce |-> l.nonce, success |-> success,
     tx_hash |-> tx_hash, error |-> error, path |-> path,
     speedup_attempts |-> l.speedup_count, tx_mode |-> l.tx_mode_used,
     final_gas_price |-> 0]
NoResult == Result(NoLoc, FALSE, None, "none", "none")

Return(t, res) ==
    /\ pc' = [pc EXCEPT ![t] = "idle"]
    /\ loc' = [loc EXCEPT ![t] = NoLoc]
    /\ result' = [result EXCEPT ![t] = res]
Goto(t, label, l) ==
    /\ pc' = [pc EXCEPT ![t] = label]
    /\ loc' = [loc EXCEPT ![t] = l]
    /\ UNCHANGED result
Count(field, k) == stats' = [stats EXCEPT ![field] = @ + k]

(***************************************************************************)
(* Nonce cache (guarded by _nonce_lock: each operator is one atomic step). *)
(***************************************************************************)
NonceTTL == IF cfg.cls = "V3Executor" THEN Sec(NONCE_CACHE_TTL) ELSE Sec(V3ARB_NONCE_TTL)
\* the refresh condition of _get_nonce
NonceRefresh == _nonce = None \/ now - _nonce_time > NonceTTL
\* the nonce _get_nonce returns
NextNonce == IF NonceRefresh THEN PendingCount ELSE _nonce
\* V3Executor._get_nonce / V3ArbitrageExecutor._get_nonce
_get_nonce ==
    /\ _nonce' = NextNonce + 1
    /\ _nonce_time' = IF NonceRefresh THEN now ELSE _nonce_time
\* V3Executor._reset_nonce / V3ArbitrageExecutor._reset_nonce
_reset_nonce ==
    /\ _nonce' = None
    /\ _nonce_time' = 0

\* history: the nonce handed to call l.lt, and the pending count then
Issue(l) == log' = [log EXCEPT !.issued = Append(@, [lt |-> l.lt, nonce |-> l.nonce,
                                                     pending |-> PendingCount]),
                               !.started = Max(@, l.lt)]

(***************************************************************************)
(* eth_sendRawTransaction accepted tx: the node returns a fresh hash.      *)
(***************************************************************************)
NewHash == Len(sent) + 1
Accept(l, tx, private) ==
    sent' = Append(sent, [tx |-> tx, private |-> private, lt |-> l.lt, sim |-> l.sim])

(***************************************************************************)
(* V3Executor.execute                                                      *)
(***************************************************************************)
\* lines 774-828: swap data, gas parameters, nonce, build, dry-run return.
\* rpc_ok = FALSE: eth_getTransactionCount raises (lines 1007-1014).
ExecuteCall(t, l0, amount, min_amount_out, expected_swap_output, dry_run, ge, rpc_ok) ==
    LET min_out    == ExecuteMinAmountOut(min_amount_out, expected_swap_output, amount)
        swap_data  == _encode_swap_data("target", 500, min_out)
        gas_params == _get_gas_params(ge, cfg.max_gas_wei)
        nonce      == NextNonce
        access     == IF gas_params.maxFeePerGas # None THEN _build_access_list
                      ELSE NoAccessList
        tx         == BuildTransaction(StartArbitrage(amount, swap_data), nonce,
                                       DEFAULT_GAS_LIMIT, gas_params, access)
        l          == [l0 EXCEPT !.dry_run = dry_run, !.swap_data = swap_data,
                                    !.amount = amount, !.nonce = nonce,
                                    !.gas_params = gas_params, !.tx = tx,
                                    !.current_gas_params = gas_params]
    IN  /\ IF NonceRefresh /\ ~rpc_ok
           THEN /\ _reset_nonce
                /\ Count("tx_count", 1)
                /\ log' = [log EXCEPT !.started = Max(@, l0.lt)]
                /\ Return(t, Result([l EXCEPT !.nonce = None], FALSE, None, "exception", "rpc"))
           ELSE /\ _get_nonce
                /\ Issue(l)
                /\ UNCHANGED stats
                /\ IF dry_run
                   THEN Return(t, Result(l, TRUE, None, "Dry run - not executed", "dry_run"))
                   ELSE Goto(t, "simulate", l)
        /\ UNCHANGED <<scanVars, cfg, _current_rpc_index, now, sent, receipts>>

Execute(t) ==
    /\ pc[t] = "idle"
    /\ cfg.cls = "V3Executor"
    /\ log.started < cfg.calls
    /\ \E c \in cfg.args, dry_run \in BOOLEAN, ge \in cfg.gas_envs, rpc_ok \in BOOLEAN :
          ExecuteCall(t, [NoLoc EXCEPT !.entry = "execute", !.lt = log.started + 1],
                      c.amount, c.min_amount_out, c.expected_swap_output, dry_run, ge, rpc_ok)

\* lines 690-743 (_simulate_with_balance_check) and 830-866: the eth_call of
\* startArbitrage returned without reverting
SimulatePass(t) ==
    /\ pc[t] = "simulate"
    /\ \E delta \in SimDeltas :
          Goto(t, "sign", [loc[t] EXCEPT !.sim =
                  SimCall(StartArbitrage(loc[t].amount, loc[t].swap_data), "signer", delta)])
    /\ UNCHANGED <<scanVars, cfg, _nonce, _nonce_time, stats, _current_rpc_index, now, sent,
                   receipts, log>>

\* a failed simulation that falls through to signing
SimulateFail_FallsThrough(t) ==
    /\ pc[t] = "simulate"
    /\ Goto(t, "sign", loc[t])
    /\ UNCHANGED <<scanVars, cfg, _nonce, _nonce_time, stats, _current_rpc_index, now, sent,
                   receipts, log>>

\* lines 725-733, 742-743, 843-850, 857-864: the eth_call reverted or raised
SimulateFail(t) ==
    /\ pc[t] = "simulate"
    /\ _reset_nonce
    /\ Return(t, Result(loc[t], FALSE, None,
                        IF cfg.STRICT_SIMULATION_CHECK THEN "Strict simulation failed"
                        ELSE "Simulation failed", "simulation"))
    /\ UNCHANGED <<scanVars, cfg, stats, _current_rpc_index, now, sent, receipts, log>>

\* lines 868-883: sign, _get_raw_tx
Sign(t) ==
    /\ pc[t] = "sign"
    /\ \E raw_tx \in BOOLEAN :
          IF raw_tx
          THEN Goto(t, "broadcast", loc[t]) /\ UNCHANGED <<_nonce, _nonce_time>>
          ELSE /\ _reset_nonce
               /\ Return(t, Result(loc[t], FALSE, None, "Could not extract raw transaction", "raw"))
    /\ UNCHANGED <<scanVars, cfg, stats, _current_rpc_index, now, sent, receipts, log>>

\* an except branch that forgets the nonce cache
ExecuteRaises_NoReset(t, path) ==
    /\ UNCHANGED <<_nonce, _nonce_time>>
    /\ Count("tx_count", 1)
    /\ Return(t, Result(loc[t], FALSE, None, "exception", path))

\* the except branch of execute, lines 1007-1014
ExecuteRaises(t, path) ==
    /\ _reset_nonce
    /\ Count("tx_count", 1)
    /\ Return(t, Result(loc[t], FALSE, None, "exception", path))

\* lines 968-973: standard public broadcast
BroadcastStandard(t) ==
    /\ pc[t] = "broadcast"
    /\ ~cfg.PRIVATE_TX_ENABLED /\ ~cfg.TX_SPEEDUP_ENABLED
    /\ \E outcome \in SendOutcomes(loc[t].tx) :
          IF outcome = "ok"
          THEN /\ Accept(loc[t], loc[t].tx, FALSE)
               /\ Goto(t, "confirm", [loc[t] EXCEPT !.tx_hash_hex = NewHash])
               /\ UNCHANGED <<_nonce, _nonce_time, stats>>
          ELSE /\ ExecuteRaises(t, "broadcast")
               /\ UNCHANGED sent
    /\ UNCHANGED <<scanVars, cfg, _current_rpc_index, now, receipts, log>>

\* lines 975-1005: wait_for_transaction_receipt returned the receipt
ConfirmReceipt(t) ==
    /\ pc[t] = "confirm"
    /\ loc[t].tx_hash_hex \in Mined
    /\ LET success == receipts[loc[t].tx_hash_hex] = 1
       IN  /\ stats' = [stats EXCEPT !.tx_count = @ + 1,
                                     !.success_count = @ + (IF success THEN 1 ELSE 0),
                                     !.total_profit = @ + (IF success THEN EXPECTED_PROFIT ELSE 0)]
           /\ Return(t, [Result(loc[t], success, loc[t].tx_hash_hex,
                                IF success THEN "None" ELSE "Transaction reverted",
                                IF success THEN "success" ELSE "reverted")
                            EXCEPT !.final_gas_price = FeeOf(loc[t].gas_params)])
    /\ UNCHANGED <<scanVars, cfg, _nonce, _nonce_time, _current_rpc_index, now, sent, receipts, log>>

\* line 977 raising after TX_TIMEOUT seconds without a receipt
ConfirmTimeout(t) ==
    /\ pc[t] = "confirm"
    /\ loc[t].tx_hash_hex \notin Mined
    /\ now' = now + Sec(TX_TIMEOUT)
    /\ ExecuteRaises(t, "confirm")
    /\ UNCHANGED <<scanVars, cfg, _current_rpc_index, sent, receipts, log>>

(***************************************************************************)
(* PrivateTransactionManager                                               *)
(***************************************************************************)
\* What a private endpoint may answer to one submission method: a hash, an
\* error naming the nonce or insufficient funds, another error, or the POST
\* itself raising
PrivateOutcomes(tx) ==
    (IF "ok" \in SendOutcomes(tx) THEN {"ok"} ELSE {}) \cup {"real error", "error", "exception"}
\* PrivateTransactionManager._rotate_rpc
_rotate_rpc(index) == (index + 1) % NumPrivateRpcs
\* PrivateTransactionManager.send_private_transaction: o1 answers
\* eth_sendPrivateTransaction, o2 answers eth_sendRawTransaction
send_private_transaction(o1, o2, index) ==
    IF o1 = "ok" THEN [success |-> TRUE, index |-> index, posted |-> <<index>>]
    ELSE IF o1 = "real error" THEN [success |-> FALSE, index |-> index, posted |-> <<index>>]
    ELSE LET i1 == IF o1 = "exception" THEN _rotate_rpc(index) ELSE index
         IN  [success |-> o2 = "ok",
              index |-> IF o2 = "exception" THEN _rotate_rpc(i1) ELSE i1,
              posted |-> <<index, i1>>]

\* V3Executor.execute lines 892-910: private submission, public fallback.
\* rpc_ok = FALSE: eth_blockNumber raises.
BroadcastPrivate(t) ==
    /\ pc[t] = "broadcast"
    /\ cfg.PRIVATE_TX_ENABLED
    /\ \E rpc_ok \in BOOLEAN, o1, o2 \in PrivateOutcomes(loc[t].tx),
          fallback \in SendOutcomes(loc[t].tx) :
          LET r == send_private_transaction(o1, o2, _current_rpc_index)
          IN  IF ~rpc_ok
              THEN ExecuteRaises(t, "rpc") /\ UNCHANGED <<sent, _current_rpc_index>>
              ELSE /\ _current_rpc_index' = r.index
                   /\ IF r.success
                      THEN /\ Accept(loc[t], loc[t].tx, TRUE)
                           /\ Count("private_tx_count", 1)
                           /\ Goto(t, "confirm", [loc[t] EXCEPT !.tx_hash_hex = NewHash,
                                                               !.tx_mode_used = "private",
                                                               !.private_posted = r.posted])
                           /\ UNCHANGED <<_nonce, _nonce_time>>
                      ELSE IF fallback = "ok"
                      THEN /\ Accept(loc[t], loc[t].tx, FALSE)
                           /\ Goto(t, "confirm", [loc[t] EXCEPT !.tx_hash_hex = NewHash,
                                                               !.tx_mode_used = "public (fallback)",
                                                               !.private_posted = r.posted])
                           /\ UNCHANGED <<_nonce, _nonce_time, stats>>
                      ELSE ExecuteRaises(t, "broadcast") /\ UNCHANGED sent
    /\ UNCHANGED <<scanVars, cfg, now, receipts, log>>

(***************************************************************************)
(* V3Executor.send_and_monitor, called from execute (lines 912-967)        *)
(***************************************************************************)
\* receipt.get("effectiveGasPrice", 0) of a mined transaction: what the
\* block charged per gas, the block's base fee plus the tip and at most
\* maxFeePerGas, or gasPrice for a legacy transaction; 0 when the node's
\* receipt carries no such field
EffectiveGasPrices(tx) ==
    {0} \cup
    IF tx.gp.maxFeePerGas # None
    THEN {Min(tx.gp.maxFeePerGas, ge.base_fee + tx.gp.maxPriorityFeePerGas) :
             ge \in {e \in GasEnvs : e.base_fee # None}}
    ELSE {tx.gp.gasPrice}

\* execute line 926, after line 890
MonitorFinalGasPrice(l, effective_gas_price) ==
    IF effective_gas_price # 0 THEN effective_gas_price ELSE FeeOf(l.gas_params)

\* execute lines 923-949: the monitor returned confirmed with tried_hash
MonitorConfirmed(t, tried_hash) ==
    /\ stats' = [stats EXCEPT !.tx_count = @ + 1, !.success_count = @ + 1,
                              !.total_profit = @ + EXPECTED_PROFIT]
    /\ \E effective_gas_price \in EffectiveGasPrices(sent[tried_hash].tx) :
          Return(t, [Result(loc[t], TRUE, tried_hash, "None", "success")
                     EXCEPT !.final_gas_price =
                                MonitorFinalGasPrice(loc[t], effective_gas_price)])
    /\ UNCHANGED <<_nonce, _nonce_time>>

\* execute lines 950-967: the monitor returned unconfirmed
MonitorUnconfirmed(t, path) ==
    /\ _reset_nonce
    /\ Count("tx_count", 1)
    /\ Return(t, Result(loc[t], FALSE, loc[t].current_tx_hash, "Transaction not confirmed", path))

\* lines 1284-1300: the initial broadcast
MonitorSend(t) ==
    /\ pc[t] = "broadcast"
    /\ ~cfg.PRIVATE_TX_ENABLED /\ cfg.TX_SPEEDUP_ENABLED
    /\ \E outcome \in SendOutcomes(loc[t].tx) :
          IF outcome = "ok"
          THEN /\ Accept(loc[t], loc[t].tx, FALSE)
               /\ Goto(t, "m_loop", [loc[t] EXCEPT !.tx_hashes_tried = <<NewHash>>,
                                                   !.current_tx_hash = NewHash,
                                                   !.start_time = now])
               /\ UNCHANGED <<_nonce, _nonce_time, stats>>
          ELSE /\ MonitorUnconfirmed(t, "broadcast")
               /\ UNCHANGED sent
    /\ UNCHANGED <<scanVars, cfg, _current_rpc_index, now, receipts, log>>

\* a loop that goes on to the next replacement without waiting
MonitorLoop_NoWait(t) ==
    /\ pc[t] = "m_loop"
    /\ LET l == loc[t]
       IN  IF l.attempt > TX_MAX_SPEEDUP_ATTEMPTS \/ now - l.start_time > Sec(TX_TOTAL_TIMEOUT)
           THEN Goto(t, "m_final", l)
           ELSE Goto(t, "m_poll", [l EXCEPT !.wait_end = now])
    /\ UNCHANGED <<scanVars, cfg, _nonce, _nonce_time, stats, _current_rpc_index, now, sent,
                   receipts, log>>

\* lines 1304-1314: loop condition, total timeout, wait_end
MonitorLoop(t) ==
    /\ pc[t] = "m_loop"
    /\ LET l == loc[t]
       IN  IF l.attempt > TX_MAX_SPEEDUP_ATTEMPTS \/ now - l.start_time > Sec(TX_TOTAL_TIMEOUT)
           THEN Goto(t, "m_final", l)
           ELSE Goto(t, "m_poll",
                     [l EXCEPT !.wait_end = now + (IF l.attempt = 0 THEN Sec(TX_INITIAL_WAIT)
                                                   ELSE Sec(TX_SPEEDUP_INTERVAL))])
    /\ UNCHANGED <<scanVars, cfg, _nonce, _nonce_time, stats, _current_rpc_index, now, sent,
                   receipts, log>>

\* lines 1316-1334: one pass of the polling loop
MonitorPoll(t) ==
    /\ pc[t] = "m_poll"
    /\ LET l == loc[t]
           tried_hash == FirstConfirmed(l.tx_hashes_tried)
       IN  IF now < l.wait_end
           THEN IF tried_hash # None
                THEN MonitorConfirmed(t, tried_hash) /\ UNCHANGED now
                ELSE /\ now' = now + 1
                     /\ UNCHANGED <<pc, loc, result, _nonce, _nonce_time, stats>>
           ELSE /\ Goto(t, "m_speedup", l)
                /\ UNCHANGED <<now, _nonce, _nonce_time, stats>>
    /\ UNCHANGED <<scanVars, cfg, _current_rpc_index, sent, receipts, log>>

\* a guard that lets one more replacement through
SpeedUpAllowed_OffByOne(attempt) ==
    cfg.TX_SPEEDUP_ENABLED /\ attempt <= TX_MAX_SPEEDUP_ATTEMPTS

\* line 1337: may this pass of the loop send a replacement
SpeedUpAllowed(attempt) ==
    ~(~cfg.TX_SPEEDUP_ENABLED \/ attempt >= TX_MAX_SPEEDUP_ATTEMPTS)

\* a handler that leaves the fees as they are
RaiseAfterUnderpriced_Same(current_gas_params) == current_gas_params

\* lines 1391-1397: current_gas_params, _ = self._bump_gas_price(
\* current_gas_params, bump_percentage=TX_SPEEDUP_GAS_BUMP_PCT * 1.5)
RaiseAfterUnderpriced(current_gas_params) ==
    _bump_gas_price(current_gas_params, TX_SPEEDUP_GAS_BUMP_PCT * 15)[1]

\* a handler that takes "nonce too low" for one more failed replacement
AlreadyConfirmed_NoRecheck(error_msg, hashes) == None

\* lines 1375-1389: on "nonce too low" the hash of tx_hashes_tried that has a
\* receipt, None on any other error and when no hash has one
AlreadyConfirmed(error_msg, hashes) ==
    IF error_msg = "nonce too low" THEN FirstConfirmed(hashes) ELSE None

\* lines 1336-1402: bump, replace, and the handling of a failed replacement
MonitorSpeedUp(t) ==
    /\ pc[t] = "m_speedup"
    /\ LET l    == loc[t]
           bump == _bump_gas_price(l.current_gas_params, TX_SPEEDUP_GAS_BUMP_PCT * 10)
           replacement == _create_replacement_tx(l.tx, bump[1], l.nonce)
           next == [l EXCEPT !.attempt = @ + 1]
       IN  IF ~SpeedUpAllowed(l.attempt)
           THEN /\ Goto(t, "m_loop", next)
                /\ UNCHANGED <<sent, _nonce, _nonce_time, stats, log>>
           ELSE IF ~bump[2]
           THEN /\ Goto(t, "m_final", l)
                /\ UNCHANGED <<sent, _nonce, _nonce_time, stats, log>>
           ELSE \E outcome \in SendOutcomes(replacement) :
                /\ log' = [log EXCEPT !.replacement = outcome]
                /\
                  IF outcome = "ok"
                  THEN /\ Accept(l, replacement, FALSE)
                       /\ Goto(t, "m_loop",
                               [next EXCEPT !.tx_hashes_tried = Append(@, NewHash),
                                            !.speedup_count = @ + 1,
                                            !.current_gas_params = bump[1],
                                            !.current_tx_hash = NewHash])
                       /\ UNCHANGED <<_nonce, _nonce_time, stats>>
                  ELSE IF AlreadyConfirmed(outcome, l.tx_hashes_tried) # None
                  THEN /\ MonitorConfirmed(t, AlreadyConfirmed(outcome, l.tx_hashes_tried))
                       /\ UNCHANGED sent
                  ELSE IF outcome = "replacement underpriced"
                  THEN /\ Goto(t, "m_loop",
                               [l EXCEPT !.current_gas_params = RaiseAfterUnderpriced(@)])
                       /\ UNCHANGED <<sent, _nonce, _nonce_time, stats>>
                  ELSE /\ Goto(t, "m_loop", next)
                       /\ UNCHANGED <<sent, _nonce, _nonce_time, stats>>
    /\ UNCHANGED <<scanVars, cfg, _current_rpc_index, now, receipts>>

\* lines 1404-1426: the final check
MonitorFinal(t) ==
    /\ pc[t] = "m_final"
    /\ LET tried_hash == FirstConfirmed(loc[t].tx_hashes_tried)
       IN  IF tried_hash # None THEN MonitorConfirmed(t, tried_hash)
           ELSE MonitorUnconfirmed(t, "unconfirmed")
    /\ UNCHANGED <<scanVars, cfg, _current_rpc_index, now, sent, receipts, log>>

(***************************************************************************)
(* V3Executor.simulate_and_execute                                         *)
(***************************************************************************)
\* lines 1058-1092: build and sign a transaction of its own
SimulateAndExecute(t) ==
    /\ pc[t] = "idle"
    /\ cfg.cls = "V3Executor"
    /\ log.started < cfg.calls
    /\ \E c \in cfg.args, dry_run \in BOOLEAN, ge \in cfg.gas_envs, rpc_ok, raw_tx \in BOOLEAN :
          LET amount == c.amount IN
          LET gas_params == _get_gas_params(ge, cfg.max_gas_wei)
              access == IF gas_params.maxFeePerGas # None THEN _build_access_list
                        ELSE NoAccessList
              tx == BuildTransaction(
                        StartArbitrage(amount, _encode_swap_data("target", 500, 0)),
                        NextNonce, DEFAULT_GAS_LIMIT, gas_params, access)
              l  == [NoLoc EXCEPT !.entry = "simulate_and_execute", !.lt = log.started + 1,
                                  !.dry_run = dry_run, !.amount = amount,
                                  !.swap_data = _encode_swap_data("target", 500, 0),
                                  !.nonce = NextNonce, !.gas_params = gas_params, !.tx = tx,
                                  !.current_gas_params = gas_params]
          IN  IF NonceRefresh /\ ~rpc_ok
              THEN /\ _reset_nonce
                   /\ log' = [log EXCEPT !.started = l.lt]
                   /\ Return(t, Result([l EXCEPT !.nonce = None], FALSE, None, "exception", "rpc"))
              ELSE /\ Issue(l)
                   /\ IF raw_tx
                      THEN _get_nonce /\ Goto(t, "sae_bundle", l)
                      ELSE /\ _reset_nonce
                           /\ Return(t, Result(l, FALSE, None,
                                               "Could not extract raw transaction", "raw"))
    /\ UNCHANGED <<scanVars, cfg, stats, _current_rpc_index, now, sent, receipts>>

\* PrivateTransactionManager.simulate_bundle: what eth_callBundle reports
BundleOutcomes == {"profit", "no profit", "revert", "error"}

\* lines 1094-1117: bundle simulation, dry-run return.
\* rpc_ok = FALSE: eth_blockNumber raises (lines 1126-1132).
BundleSimulate(t) ==
    /\ pc[t] = "sae_bundle"
    /\ LET l == loc[t]
           simulates == cfg.PRIVATE_TX_ENABLED /\ cfg.BUNDLE_SIMULATION_RPC
       IN  \E rpc_ok \in BOOLEAN, b \in BundleOutcomes :
              IF simulates /\ ~rpc_ok
              THEN _reset_nonce /\ Return(t, Result(l, FALSE, None, "exception", "rpc"))
              ELSE IF simulates /\ b = "revert"
              THEN _reset_nonce /\ Return(t, Result(l, FALSE, None, "Bundle simulation failed", "bundle"))
              ELSE /\ UNCHANGED <<_nonce, _nonce_time>>
                   /\ IF l.dry_run
                      THEN Return(t, Result(l, TRUE, None, "Dry run - simulation passed", "dry_run"))
                      ELSE Goto(t, "sae_execute",
                                [l EXCEPT !.bundle = IF simulates THEN b ELSE "none"])
    /\ UNCHANGED <<scanVars, cfg, stats, _current_rpc_index, now, sent, receipts, log>>

\* lines 1119-1124: the call of execute
SimulateAndExecuteCall(t) ==
    /\ pc[t] = "sae_execute"
    /\ \E ge \in cfg.gas_envs, rpc_ok \in BOOLEAN :
          ExecuteCall(t, [NoLoc EXCEPT !.entry = "simulate_and_execute", !.lt = loc[t].lt,
                                       !.bundle = loc[t].bundle],
                      loc[t].amount, 0, 0, FALSE, ge, rpc_ok)

(***************************************************************************)
(* V3ArbitrageExecutor.execute_v3_arbitrage                                *)
(***************************************************************************)
\* the except branch, lines 446-455
V3ArbRaises(t, l, path) ==
    /\ _reset_nonce
    /\ stats' = [stats EXCEPT !.failed_count = @ + 1, !.tx_count = @ + 1]
    /\ Return(t, Result(l, FALSE, None, "exception", path))

\* lines 310-344: user data, gas parameters, nonce, build, dry-run return
V3ArbExecute(t) ==
    /\ pc[t] = "idle"
    /\ cfg.cls = "V3ArbitrageExecutor"
    /\ log.started < cfg.calls
    /\ \E c \in cfg.args, dry_run \in BOOLEAN, ge \in cfg.gas_envs, rpc_ok \in BOOLEAN :
          LET amount == c.amount
              gas_params == V3Arb_get_gas_params(ge, cfg.max_gas_wei)
              tx == BuildTransaction(StartArbitrage(amount, _encode_user_data("target", 500)),
                                     NextNonce, V3ARB_GAS_LIMIT, gas_params, NoAccessList)
              l  == [NoLoc EXCEPT !.entry = "execute_v3_arbitrage", !.lt = log.started + 1,
                                  !.dry_run = dry_run, !.amount = amount,
                                  !.swap_data = _encode_user_data("target", 500),
                                  !.nonce = NextNonce, !.gas_params = gas_params, !.tx = tx,
                                  !.current_gas_params = gas_params]
          IN  IF NonceRefresh /\ ~rpc_ok
              THEN /\ V3ArbRaises(t, [l EXCEPT !.nonce = None], "rpc")
                   /\ log' = [log EXCEPT !.started = l.lt]
              ELSE /\ _get_nonce
                   /\ Issue(l)
                   /\ UNCHANGED stats
                   /\ IF dry_run
                      THEN Return(t, Result(l, TRUE, None, "Dry run", "dry_run"))
                      ELSE Goto(t, "v_simulate", l)
    /\ UNCHANGED <<scanVars, cfg, _current_rpc_index, now, sent, receipts>>

\* lines 346-372: pre-flight eth_call
V3ArbSimulate(t) ==
    /\ pc[t] = "v_simulate"
    /\ \/ \E delta \in SimDeltas :
             /\ Goto(t, "v_send", [loc[t] EXCEPT !.sim =
                     SimCall(StartArbitrage(loc[t].amount, loc[t].swap_data), "signer", delta)])
             /\ UNCHANGED <<_nonce, _nonce_time>>
       \/ /\ _reset_nonce
          /\ Return(t, Result(loc[t], FALSE, None, "Simulation failed", "simulation"))
    /\ UNCHANGED <<scanVars, cfg, stats, _current_rpc_index, now, sent, receipts, log>>

\* lines 374-413: sign, extract the raw bytes, broadcast
V3ArbSend(t) ==
    /\ pc[t] = "v_send"
    /\ \E raw_tx_bytes \in BOOLEAN, outcome \in SendOutcomes(loc[t].tx) :
          IF ~raw_tx_bytes
          THEN /\ _reset_nonce
               /\ Return(t, Result(loc[t], FALSE, None, "Could not extract raw transaction bytes", "raw"))
               /\ UNCHANGED <<sent, stats>>
          ELSE IF outcome = "ok"
          THEN /\ Accept(loc[t], loc[t].tx, FALSE)
               /\ Goto(t, "v_confirm", [loc[t] EXCEPT !.tx_hash_hex = NewHash])
               /\ UNCHANGED <<_nonce, _nonce_time, stats>>
          ELSE V3ArbRaises(t, loc[t], "broadcast") /\ UNCHANGED sent
    /\ UNCHANGED <<scanVars, cfg, _current_rpc_index, now, receipts, log>>

\* lines 415-444: the receipt arrived; lines 417, 446-455: the wait timed out
V3ArbConfirm(t) ==
    /\ pc[t] = "v_confirm"
    /\ \/ /\ loc[t].tx_hash_hex \in Mined
          /\ LET tx_status == receipts[loc[t].tx_hash_hex] = 1
             IN  /\ stats' = [stats EXCEPT
                        !.tx_count = @ + 1,
                        !.success_count = @ + (IF tx_status THEN 1 ELSE 0),
                        !.total_profit = @ + (IF tx_status THEN EXPECTED_PROFIT ELSE 0),
                        !.failed_count = @ + (IF tx_status THEN 0 ELSE 1)]
                 /\ Return(t, Result(loc[t], tx_status, loc[t].tx_hash_hex,
                                     IF tx_status THEN "None" ELSE "Transaction reverted",
                                     IF tx_status THEN "success" ELSE "reverted"))
          /\ UNCHANGED <<_nonce, _nonce_time, now>>
       \/ /\ loc[t].tx_hash_hex \notin Mined
          /\ now' = now + Sec(TX_TIMEOUT)
          /\ V3ArbRaises(t, loc[t], "confirm")
    /\ UNCHANGED <<scanVars, cfg, _current_rpc_index, sent, receipts, log>>

(***************************************************************************)
(* Environment                                                             *)
(***************************************************************************)
\* a block includes the pending transaction that carries the account's next
\* nonce; it succeeds (1) or reverts (0)
Mine ==
    /\ \E h \in Hashes \ Mined, status \in {0, 1} :
          /\ sent[h].tx.nonce = ConfirmedCount
          /\ receipts' = (h :> status) @@ receipts
    /\ UNCHANGED <<scanVars, cfg, _nonce, _nonce_time, stats, _current_rpc_index, pc, loc, result,
                   now, sent, log>>

\* time passes while a caller waits for its next scan: just over the nonce
\* cache's TTL
Tick ==
    /\ \E t \in cfg.threads : pc[t] = "idle"
    /\ now + NonceTTL + 1 <= MaxTime
    /\ now' = now + NonceTTL + 1
    /\ UNCHANGED <<scanVars, cfg, _nonce, _nonce_time, stats, _current_rpc_index, pc, loc, result,
                   sent, receipts, log>>

(***************************************************************************)
(* The scanner (src/core/scanner_v3.py, src/core/multicall.py) and the bot *)
(* loop that drives it (src/main_v3.py).                                   *)
(*                                                                         *)
(* Units.  sqrtPriceX96 is counted in units of 2^96 / SqrtPriceUnit, so    *)
(* that price_0_to_1 = (sqrtPriceX96 / 2^96)^2 is sqrtPriceX96^2 in units  *)
(* of 1 / SqrtPriceUnit^2.  Amounts of the borrowed token are counted in   *)
(* units of 10^13 wei and liquidity in units of 10^15.                     *)
(***************************************************************************)
\* scan cycles of one run
MaxCycles == 2

SqrtPriceUnit == 1000
\* scanner_v3.py:61 (10^15)
MIN_LIQUIDITY == 1
\* scanner_v3.py:433 (10^18 wei)
BORROW_AMOUNT == 100000
\* the 1_000_000 of scanner_v3.py:429, 436-437
FEE_UNITS == 1000000
\* find_opportunities' defaults, scanner_v3.py:353-354
FIND_MIN_PROFIT_WEI == 0
FLASH_FEE_TIER == 500
\* main_v3.py:73-74 (0.001 ETH) and 82 (seconds)
MIN_PROFIT_WEI == 100
SCAN_INTERVAL == 1

\* V3ArbitrageScanner.pools after discover_pools: two pools of one token
\* pair, in the order of their insertion
PoolIds == {1, 2}
pool_addresses == <<1, 2>>
\* the fee tier of the pool found at each position (V3_FEE_TIERS)
PoolFee == <<500, 3000, 100>>

\* sqrt_price_x96_to_price (scanner_v3.py): <<price_0_to_1, price_1_to_0>>,
\* the latter as the fraction <<numerator, denominator>>
ScannerPrice(sqrtPriceX96) ==
    IF sqrtPriceX96 = 0 THEN <<0, <<0, 1>>>>
    ELSE <<sqrtPriceX96 * sqrtPriceX96,
           <<SqrtPriceUnit * SqrtPriceUnit, sqrtPriceX96 * sqrtPriceX96>>>>

\* V3PoolInfo as discover_pools creates it; slot0_cycle and liquidity_cycle
\* name the scan cycle that wrote the price fields and the liquidity (0:
\* none yet)
V3PoolInfo(address, token0, token1, fee) ==
    [address |-> address, token0 |-> token0, token1 |-> token1, fee |-> fee,
     sqrtPriceX96 |-> 0, tick |-> 0, liquidity |-> 0, price_0_to_1 |-> 0,
     price_1_to_0 |-> <<0, 1>>, last_update |-> 0, slot0_cycle |-> 0, liquidity_cycle |-> 0]
PoolsInit == [i \in PoolIds |-> V3PoolInfo(i, "WETH", "USDC", PoolFee[i])]

(***************************************************************************)
(* Multicall: what the chain returns for one call of the batch.            *)
(***************************************************************************)
\* return data: its length in bytes, whether it decodes, and its first words
ReturnData(len, decodes, word0, word1) ==
    [len |-> len, decodes |-> decodes, word0 |-> word0, word1 |-> word1]
EmptyData == ReturnData(0, FALSE, 0, 0)
\* slot0() of a pool: seven words
Slot0Data(sqrtPriceX96, tick) == ReturnData(224, TRUE, sqrtPriceX96, tick)
\* liquidity() of a pool: one word
LiquidityData(liquidity) == ReturnData(32, TRUE, liquidity, 0)
\* two words returned by a contract that is not a pool
ForeignData == ReturnData(64, FALSE, 0, 0)
CallResult(success, data) == [success |-> success, data |-> data]

\* the states a pool can be in on the chain
Slot0Values(i) ==
    IF i = 1 THEN {Slot0Data(0, 0), Slot0Data(1000, 0)}
    ELSE {Slot0Data(1000, 0), Slot0Data(1002, 40), Slot0Data(1003, 60)}
LiquidityValues == {LiquidityData(1000)}
\* answers to the slot0 and the liquidity call of pool i inside aggregate3
\* (allowFailure = true)
Slot0Results(i) ==
    {CallResult(TRUE, d) : d \in Slot0Values(i)}
        \cup {CallResult(FALSE, EmptyData), CallResult(TRUE, ForeignData)}
LiquidityResults ==
    {CallResult(TRUE, d) : d \in LiquidityValues} \cup {CallResult(FALSE, EmptyData)}

(***************************************************************************)
(* One scan cycle of FlashArbV3Bot.run: scanner.scan(), the handling of    *)
(* its opportunities, the sleep.                                           *)
(***************************************************************************)
\* the bot before its first cycle; DRY_RUN is read at import (main_v3.py:84)
ScanInit(dry_run) ==
    [DRY_RUN |-> dry_run, pc |-> "idle", cycle |-> 0, rpcs |-> 0, results |-> <<>>,
     aggregate |-> "none", prior |-> PoolsInit, opportunities |-> <<>>,
     phases |-> <<>>, execution_count |-> 0]

\* run line 288, scan line 477, update_pool_data lines 290-303: a cycle
\* begins and the 2N calls are built
ScanStart ==
    /\ scan.pc = "idle"
    /\ scan.cycle < MaxCycles
    /\ scan' = [scan EXCEPT !.pc = "aggregate3", !.cycle = @ + 1, !.rpcs = 0,
                            !.results = <<>>, !.aggregate = "none", !.prior = pools,
                            !.opportunities = <<>>, !.phases = <<>>]
    /\ UNCHANGED <<pools, calc, now, bot, net, execVars>>

\* the batches aggregate3 may return: slot0 and liquidity of each pool
Aggregate3Results ==
    {<<s1, l1, s2, l2>> : s1 \in Slot0Results(1), l1 \in LiquidityResults,
                          s2 \in Slot0Results(2), l2 \in LiquidityResults}
\* the batches the plain aggregate may return: it reverts as a whole when a
\* call fails
AggregateResults ==
    {<<CallResult(TRUE, s1), CallResult(TRUE, l1), CallResult(TRUE, s2), CallResult(TRUE, l2)>> :
        s1 \in Slot0Values(1), l1 \in LiquidityValues,
        s2 \in Slot0Values(2), l2 \in LiquidityValues}
\* [(False, b"") for _ in calls]
AllFailed == [k \in 1 .. 2 * Len(pool_addresses) |-> CallResult(FALSE, EmptyData)]

\* Multicall.aggregate lines 118-134: the eth_call of aggregate3 returns or
\* raises
Aggregate3 ==
    /\ scan.pc = "aggregate3"
    /\ \/ \E r \in Aggregate3Results :
             scan' = [scan EXCEPT !.pc = "parse", !.rpcs = @ + 1, !.results = r,
                                  !.aggregate = "aggregate3"]
       \/ scan' = [scan EXCEPT !.pc = "fallback", !.rpcs = @ + 1]
    /\ UNCHANGED <<pools, calc, now, bot, net, execVars>>

\* Multicall._aggregate_fallback lines 136-163: the eth_call of aggregate
\* returns or raises
AggregateFallback ==
    /\ scan.pc = "fallback"
    /\ \/ \E r \in AggregateResults :
             scan' = [scan EXCEPT !.pc = "parse", !.rpcs = @ + 1, !.results = r,
                                  !.aggregate = "fallback"]
       \/ scan' = [scan EXCEPT !.pc = "parse", !.rpcs = @ + 1, !.results = AllFailed,
                               !.aggregate = "failed"]
    /\ UNCHANGED <<pools, calc, now, bot, net, execVars>>

\* update_pool_data lines 313-343, the body of the loop for one pool:
\* [pool |-> the pool after it, counted |-> whether success_count grew]
UpdatePool(pool, slot0_result, liquidity_result, time, cycle) ==
    LET reads_slot0 == slot0_result.success /\ slot0_result.data.len >= 64
        reads_liquidity == liquidity_result.success /\ liquidity_result.data.len >= 32
        price == ScannerPrice(slot0_result.data.word0)
        p1 == IF reads_slot0
              THEN [pool EXCEPT !.sqrtPriceX96 = slot0_result.data.word0,
                                !.tick = slot0_result.data.word1,
                                !.price_0_to_1 = price[1], !.price_1_to_0 = price[2],
                                !.slot0_cycle = cycle]
              ELSE pool
        p2 == IF reads_liquidity
              THEN [p1 EXCEPT !.liquidity = liquidity_result.data.word0,
                              !.liquidity_cycle = cycle]
              ELSE p1
    IN  IF (reads_slot0 /\ ~slot0_result.data.decodes)
           \/ (reads_liquidity /\ ~liquidity_result.data.decodes)
        THEN [pool |-> IF reads_slot0 /\ slot0_result.data.decodes THEN p1 ELSE pool,
              counted |-> FALSE]
        ELSE [pool |-> [p2 EXCEPT !.last_update = time], counted |-> TRUE]

\* position of a pool in pool_addresses
IndexOf(addr) == CHOOSE k \in DOMAIN pool_addresses : pool_addresses[k] = addr

\* update_pool_data lines 305-349: parse the results into the pool table
ParseResults ==
    /\ scan.pc = "parse"
    /\ LET upd == [a \in PoolIds |->
                      UpdatePool(pools[a], scan.results[2 * IndexOf(a) - 1],
                                 scan.results[2 * IndexOf(a)], now, scan.cycle)]
           success_count == Cardinality({a \in PoolIds : upd[a].counted})
       IN  /\ pools' = [a \in PoolIds |-> upd[a].pool]
           /\ scan' = [scan EXCEPT !.pc = IF success_count > 0 THEN "find" ELSE "report",
                                   !.phases = Append(@, "StateUpdater")]
    /\ UNCHANGED <<calc, now, bot, net, execVars>>

\* V3ArbitrageOpportunity; pool_a and pool_b refer to entries of the pool
\* table.  NoOpportunity stands for None.
V3ArbitrageOpportunity(low_pool, high_pool, gross_profit, net_profit, flash_fee) ==
    [pool_a |-> low_pool, pool_b |-> high_pool, borrow_amount |-> BORROW_AMOUNT,
     expected_profit |-> gross_profit, profit_after_fee |-> net_profit,
     flash_fee |-> flash_fee]
NoOpportunity == V3ArbitrageOpportunity(0, 0, 0, 0, 0)

\* V3ArbitrageScanner._check_opportunity, scanner_v3.py:398-464
_check_opportunity(table, a, b, flash_fee_tier, min_profit_wei) ==
    LET price_a == table[a].price_0_to_1
        price_b == table[b].price_0_to_1
        hi == IF price_a > price_b THEN a ELSE b
        lo == IF price_a > price_b THEN b ELSE a
        gross_profit == (BORROW_AMOUNT * (table[hi].price_0_to_1 - table[lo].price_0_to_1))
                            \div table[lo].price_0_to_1
        flash_fee == (BORROW_AMOUNT * flash_fee_tier) \div FEE_UNITS
        net_profit == gross_profit - flash_fee
                        - (BORROW_AMOUNT * (table[a].fee + table[b].fee)) \div FEE_UNITS
    IN  IF price_a <= 0 \/ price_b <= 0 THEN NoOpportunity
        ELSE IF net_profit < min_profit_wei THEN NoOpportunity
        ELSE V3ArbitrageOpportunity(lo, hi, gross_profit, net_profit, flash_fee)

\* find_opportunities lines 371-375: the pools the search looks at
Searched(table, a) ==
    ~(table[a].liquidity < MIN_LIQUIDITY) /\ ~(table[a].sqrtPriceX96 = 0)

\* V3ArbitrageScanner.find_opportunities, scanner_v3.py:351-396: the pairs
\* (i < j) of searched pools of one token pair, in the order of the table
\* (a sequence of V3PoolInfo)
find_opportunities(table, min_profit_wei, flash_fee_tier) ==
    LET N == Len(table)
        all == [k \in 1 .. N * N |-> <<((k - 1) \div N) + 1, ((k - 1) % N) + 1>>]
        Compared(pr) ==
            /\ pr[1] < pr[2]
            /\ Searched(table, pr[1]) /\ Searched(table, pr[2])
            /\ table[pr[1]].token0 = table[pr[2]].token0
            /\ table[pr[1]].token1 = table[pr[2]].token1
        pairs == SelectSeq(all, Compared)
        opps == [k \in DOMAIN pairs |->
                    _check_opportunity(table, pairs[k][1], pairs[k][2], flash_fee_tier,
                                       min_profit_wei)]
        Found(opp) == opp # NoOpportunity
    IN  SelectSeq(opps, Found)

\* scan lines 486-503: the search, with find_opportunities' defaults
FindOpportunities ==
    /\ scan.pc = "find"
    /\ scan' = [scan EXCEPT !.pc = "handle",
                            !.opportunities =
                                find_opportunities(pools, FIND_MIN_PROFIT_WEI, FLASH_FEE_TIER),
                            !.phases = Append(@, "ProfitEngine")]
    /\ UNCHANGED <<pools, calc, now, bot, net, execVars>>

\* _handle_opportunities lines 309-346, the body of the loop for the next
\* opportunity.  executed: the result of _execute_opportunity reports success.
HandleOpportunity ==
    /\ scan.pc = "handle"
    /\ scan.opportunities # <<>>
    /\ LET opp == Head(scan.opportunities)
       IN  \E executed \in BOOLEAN :
              scan' = IF opp.profit_after_fee < MIN_PROFIT_WEI \/ scan.DRY_RUN
                      THEN [scan EXCEPT !.opportunities = Tail(@)]
                      ELSE [scan EXCEPT !.opportunities = Tail(@),
                                        !.phases = Append(@, "Executor"),
                                        !.execution_count = @ + (IF executed THEN 1 ELSE 0)]
    /\ UNCHANGED <<pools, calc, now, bot, net, execVars>>

\* scan lines 480-485 and run lines 291-303: the status line and the sleep
CycleEnd ==
    /\ scan.pc = "report" \/ (scan.pc = "handle" /\ scan.opportunities = <<>>)
    /\ scan' = [scan EXCEPT !.pc = "idle"]
    /\ now' = now + Sec(SCAN_INTERVAL)
    /\ UNCHANGED <<pools, calc, bot, net, execVars>>

(***************************************************************************)
(* calculator.py: the spread prefilter and the swap math.  Floats are      *)
(* computed exactly, as fractions; sqrtPriceX96 is in units of             *)
(* 2^96 / SqrtPriceUnit, amounts and liquidity share one unit.             *)
(***************************************************************************)
\* calculator.py:37
FEE_DENOMINATOR == 1000000

\* V3PoolData as the fast functions read it (decimals0 = decimals1)
V3PoolData(sqrtPriceX96, liquidity, fee) ==
    [sqrtPriceX96 |-> sqrtPriceX96, liquidity |-> liquidity, fee |-> fee]

\* how a call ends: with a value, or with an exception
Returned(value) == [raised |-> FALSE, value |-> value]
Raised == [raised |-> TRUE, value |-> <<>>]
CalcInit == [op |-> "none", args |-> <<>>, out |-> Returned(<<>>)]

\* calculator.sqrt_price_x96_to_price, lines 163-180
sqrt_price_x96_to_price(sqrtPriceX96) ==
    IF sqrtPriceX96 = 0 THEN 0 ELSE sqrtPriceX96 * sqrtPriceX96

\* lines 416-424 of quick_profit_check_fast: <<profitable, diff_pct>>, with
\* diff_pct the fraction <<numerator, denominator>>.  diff_pct >
\* min_fee_pct * 1.5 is (hi - lo) / lo * 100 > (fee_a + fee_b) * 3 / 20000;
\* fee tiers are multiples of 100.
SpreadCheck(price_a, price_b, fee_a, fee_b) ==
    LET hi == IF price_a > price_b THEN price_a ELSE price_b
        lo == IF price_a > price_b THEN price_b ELSE price_a
    IN  <<(hi - lo) * 20000 > ((3 * (fee_a + fee_b)) \div 100) * lo, <<(hi - lo) * 100, lo>>>>

\* a prefilter without its two early returns: the division by a zero price
\* raises ZeroDivisionError
quick_profit_check_fast_Unguarded(pool_a, pool_b) ==
    LET price_a == sqrt_price_x96_to_price(pool_a.sqrtPriceX96)
        price_b == sqrt_price_x96_to_price(pool_b.sqrtPriceX96)
    IN  IF (IF price_a > price_b THEN price_b ELSE price_a) = 0 THEN Raised
        ELSE Returned(SpreadCheck(price_a, price_b, pool_a.fee, pool_b.fee))

\* quick_profit_check_fast, calculator.py:395-427
quick_profit_check_fast(pool_a, pool_b) ==
    LET price_a == sqrt_price_x96_to_price(pool_a.sqrtPriceX96)
        price_b == sqrt_price_x96_to_price(pool_b.sqrtPriceX96)
    IN  IF pool_a.sqrtPriceX96 = 0 \/ pool_b.sqrtPriceX96 = 0 THEN Returned(<<FALSE, <<0, 1>>>>)
        ELSE IF price_a <= 0 \/ price_b <= 0 THEN Returned(<<FALSE, <<0, 1>>>>)
        ELSE Returned(SpreadCheck(price_a, price_b, pool_a.fee, pool_b.fee))

\* get_v3_amount_out_fast, calculator.py:183-239: <<amount_out, fee_amount>>.
\* With sqrt_price = s / U: L * (sqrt_price - L * sqrt_price / (L + dx * sqrt_price))
\* = L dx s^2 / (U (U L + dx s)), and L * (1 / sqrt_price - 1 / (sqrt_price + dx / L))
\* = dx L U^2 / (s (s L + dx U)).
get_v3_amount_out_fast(amount_in, sqrtPriceX96, liquidity, fee, zero_for_one) ==
    LET fee_amount == (amount_in * fee) \div FEE_DENOMINATOR
        dx == amount_in - fee_amount
        L == liquidity
        s == sqrtPriceX96
        U == SqrtPriceUnit
        max0(x) == IF x > 0 THEN x ELSE 0
    IN  IF amount_in <= 0 \/ liquidity <= 0 \/ sqrtPriceX96 <= 0 THEN Returned(<<0, 0>>)
        ELSE IF zero_for_one
        THEN IF U * L + dx * s <= 0 THEN Returned(<<0, fee_amount>>)
             ELSE Returned(<<max0((L * dx * s * s) \div (U * (U * L + dx * s))), fee_amount>>)
        ELSE IF s * L + dx * U <= 0 THEN Returned(<<0, fee_amount>>)
             ELSE Returned(<<max0((dx * L * U * U) \div (s * (s * L + dx * U))), fee_amount>>)

\* the pools and amounts the calculator is called with
CalcSqrtPrices == {0, 1000, 1003}
CalcPools == {V3PoolData(s, l, f) : s \in CalcSqrtPrices, l \in {0, 2}, f \in {500, 3000}}
AmountsIn == {0, 1000}

\* a call of find_opportunities on the pool table; a behaviour of the
\* calculator is one call
Search ==
    /\ calc.op = "none"
    /\ \E min_profit_wei \in {FIND_MIN_PROFIT_WEI, MIN_PROFIT_WEI} :
          calc' = [op |-> "find_opportunities", args |-> <<min_profit_wei, FLASH_FEE_TIER>>,
                   out |-> Returned(find_opportunities(pools, min_profit_wei, FLASH_FEE_TIER))]
    /\ UNCHANGED <<pools, scan, now, bot, net, execVars>>

\* a call of quick_profit_check_fast
QuickProfitCheck ==
    /\ calc.op = "none"
    /\ \E pool_a \in CalcPools, pool_b \in CalcPools :
          calc' = [op |-> "quick_profit_check_fast", args |-> <<pool_a, pool_b>>,
                   out |-> quick_profit_check_fast(pool_a, pool_b)]
    /\ UNCHANGED <<pools, scan, now, bot, net, execVars>>

\* a call of get_v3_amount_out_fast
SwapMath ==
    /\ calc.op = "none"
    /\ \E pool \in CalcPools, amount_in \in AmountsIn, zero_for_one \in BOOLEAN :
          calc' = [op |-> "get_v3_amount_out_fast", args |-> <<amount_in, pool, zero_for_one>>,
                   out |-> get_v3_amount_out_fast(amount_in, pool.sqrtPriceX96, pool.liquidity,
                                                  pool.fee, zero_for_one)]
    /\ UNCHANGED <<pools, scan, now, bot, net, execVars>>

(***************************************************************************)
(* calculator.py: the profit calculation with safety checks.  Amounts,     *)
(* costs and liquidity share one unit (10^14 wei).                         *)
(***************************************************************************)
\* calculator.py:66 (0.0001 ETH)
MIN_PROFIT_AFTER_L1_FEE == 1

\* QuoterResult of quote_exact_input_single: the eth_call returned
\* amount_out, or raised
QuoterResult(success, amount_out) == [success |-> success, amount_out |-> amount_out]

\* calculate_v3_arb_profit_fast, calculator.py:242-313
calculate_v3_arb_profit_fast(amount_in, pool_borrow, pool_swap, borrow_token_is_token0) ==
    LET flash_fee == (amount_in * pool_borrow.fee) \div FEE_DENOMINATOR
        swap1 == get_v3_amount_out_fast(amount_in, pool_borrow.sqrtPriceX96,
                                        pool_borrow.liquidity, pool_borrow.fee,
                                        borrow_token_is_token0).value
        swap2 == get_v3_amount_out_fast(swap1[1], pool_swap.sqrtPriceX96, pool_swap.liquidity,
                                        pool_swap.fee, ~borrow_token_is_token0).value
        profit == swap2[1] - (amount_in + flash_fee)
    IN  IF amount_in <= 0
        THEN [profitable |-> FALSE, profit |-> 0, amount_out_swap1 |-> 0, amount_out_swap2 |-> 0]
        ELSE IF swap1[1] <= 0
        THEN [profitable |-> FALSE, profit |-> 0, amount_out_swap1 |-> 0, amount_out_swap2 |-> 0]
        ELSE [profitable |-> profit > 0, profit |-> profit, amount_out_swap1 |-> swap1[1],
              amount_out_swap2 |-> swap2[1]]

\* SafeArbitrageResult; quotes lists the quoter calls that were made
SafeArbitrageResult(profitable, net_profit, gross_profit, amount_out_swap1, amount_out_swap2, flash_fee, total_gas_cost, quoter_verified, error, quotes) ==
    [profitable |-> profitable, net_profit |-> net_profit, gross_profit |-> gross_profit,
     amount_out_swap1 |-> amount_out_swap1, amount_out_swap2 |-> amount_out_swap2,
     flash_fee |-> flash_fee, total_gas_cost |-> total_gas_cost,
     quoter_verified |-> quoter_verified, error |-> error, quotes |-> quotes]

\* a calculation that falls back on the local estimate when a quote fails
QuoteFailure_UsesLocal(local_result, amount_out_swap1, flash_fee, total_gas_cost, error, quotes) ==
    SafeArbitrageResult(local_result.profit - total_gas_cost > MIN_PROFIT_AFTER_L1_FEE,
                        local_result.profit - total_gas_cost, local_result.profit,
                        amount_out_swap1, 0, flash_fee, total_gas_cost, FALSE, error, quotes)

\* calculate_safe_profit lines 874-889 and 898-914: what it returns when a
\* quote failed
QuoteFailure(local_result, amount_out_swap1, flash_fee, total_gas_cost, error, quotes) ==
    SafeArbitrageResult(FALSE, 0, 0, amount_out_swap1, 0, flash_fee, total_gas_cost, FALSE,
                        error, quotes)

\* a verified profit that is the local estimate net of costs
VerifiedNetProfit_Local(local_result, quote2, amount_in, flash_fee, total_gas_cost) ==
    local_result.profit - total_gas_cost

\* calculate_safe_profit lines 916-919: repay_amount, gross_profit, net_profit
VerifiedNetProfit(local_result, quote2, amount_in, flash_fee, total_gas_cost) ==
    (quote2.amount_out - (amount_in + flash_fee)) - total_gas_cost

\* calculate_safe_profit, calculator.py:776-951.  l2_cost and l1_fee are
\* what get_total_tx_cost returns; quote1 and quote2 are what the quoter
\* answers when it is asked.
calculate_safe_profit(pool_borrow, pool_swap, amount_in, borrow_token_is_token0, l2_cost, l1_fee, quote1, quote2, skip_quoter) ==
    LET total_gas_cost == l2_cost + l1_fee
        flash_fee == (amount_in * pool_borrow.fee) \div FEE_DENOMINATOR
        local_result == calculate_v3_arb_profit_fast(amount_in, pool_borrow, pool_swap,
                                                     borrow_token_is_token0)
        net_profit == VerifiedNetProfit(local_result, quote2, amount_in, flash_fee,
                                        total_gas_cost)
        gross_profit == net_profit + total_gas_cost
    IN  IF ~local_result.profitable /\ local_result.profit < 0 - total_gas_cost
        THEN SafeArbitrageResult(FALSE, local_result.profit - total_gas_cost,
                                 local_result.profit, local_result.amount_out_swap1,
                                 local_result.amount_out_swap2, flash_fee, total_gas_cost,
                                 FALSE, "Local math shows no profit", <<>>)
        ELSE IF skip_quoter
        THEN SafeArbitrageResult(local_result.profit - total_gas_cost > MIN_PROFIT_AFTER_L1_FEE,
                                 local_result.profit - total_gas_cost, local_result.profit,
                                 local_result.amount_out_swap1, local_result.amount_out_swap2,
                                 flash_fee, total_gas_cost, FALSE, "", <<>>)
        ELSE IF ~quote1.success
        THEN QuoteFailure(local_result, 0, flash_fee, total_gas_cost, "Quoter swap1 failed",
                          <<quote1>>)
        ELSE IF ~quote2.success
        THEN QuoteFailure(local_result, quote1.amount_out, flash_fee, total_gas_cost,
                          "Quoter swap2 failed", <<quote1, quote2>>)
        ELSE SafeArbitrageResult(net_profit > MIN_PROFIT_AFTER_L1_FEE, net_profit, gross_profit,
                                 quote1.amount_out, quote2.amount_out, flash_fee,
                                 total_gas_cost, TRUE, "", <<quote1, quote2>>)

\* QuoterVerifier.verify_arb_path, calculator.py:682-728:
\* <<is_profitable, net_profit, amount_out_final, error_msg, quotes made>>
verify_arb_path(amount_borrow, fee_pool1, quote1, quote2) ==
    LET flash_fee == (amount_borrow * fee_pool1) \div FEE_DENOMINATOR
        net_profit == quote2.amount_out - (amount_borrow + flash_fee)
    IN  IF ~quote1.success THEN <<FALSE, 0, 0, "Swap1 quote failed", <<quote1>>>>
        ELSE IF quote1.amount_out <= 0 THEN <<FALSE, 0, 0, "Swap1 output is zero", <<quote1>>>>
        ELSE IF ~quote2.success THEN <<FALSE, 0, 0, "Swap2 quote failed", <<quote1, quote2>>>>
        ELSE <<net_profit > 0, net_profit, quote2.amount_out, "", <<quote1, quote2>>>>

\* the arguments and the quoter's answers
SafePools ==
    {V3PoolData(s, l, f) : s \in {0, 1000, 2000}, l \in {5, 50}, f \in {3000, 10000}}
SafeAmounts == {10, 100}
TxCosts == {1, 50}
Quotes1 == {QuoterResult(FALSE, 0), QuoterResult(TRUE, 0), QuoterResult(TRUE, 28)}
Quotes2 == {QuoterResult(FALSE, 0)} \cup {QuoterResult(TRUE, v) : v \in {5, 103, 105, 300}}

\* a call of calculate_safe_profit; the pools are two pools of one
\* liquidity, and liquidity * amount_in stays within the word
SafeProfit ==
    /\ calc.op = "none"
    /\ \E pool_borrow \in SafePools, pool_swap \in SafePools, amount_in \in SafeAmounts,
          borrow_token_is_token0 \in BOOLEAN, l2_cost \in TxCosts, l1_fee \in TxCosts,
          quote1 \in Quotes1, quote2 \in Quotes2, skip_quoter \in BOOLEAN :
          /\ pool_swap.liquidity = pool_borrow.liquidity
          /\ pool_swap.fee = 3000 /\ pool_swap.sqrtPriceX96 # 0
          /\ pool_borrow.liquidity * amount_in <= 500
          /\ calc' = [op |-> "calculate_safe_profit",
                      args |-> [pool_borrow |-> pool_borrow, pool_swap |-> pool_swap,
                                amount_in |-> amount_in,
                                borrow_token_is_token0 |-> borrow_token_is_token0,
                                l2_cost |-> l2_cost, l1_fee |-> l1_fee,
                                quote1 |-> quote1, quote2 |-> quote2,
                                skip_quoter |-> skip_quoter],
                      out |-> Returned(calculate_safe_profit(pool_borrow, pool_swap, amount_in,
                                  borrow_token_is_token0, l2_cost, l1_fee, quote1, quote2,
                                  skip_quoter))]
    /\ UNCHANGED <<pools, scan, now, bot, net, execVars>>

\* a call of verify_arb_path
VerifyArbPath ==
    /\ calc.op = "none"
    /\ \E amount_borrow \in SafeAmounts, fee_pool1 \in {3000, 10000}, quote1 \in Quotes1,
          quote2 \in Quotes2 :
          calc' = [op |-> "verify_arb_path",
                   args |-> [amount_in |-> amount_borrow, fee_pool1 |-> fee_pool1,
                             quote1 |-> quote1, quote2 |-> quote2],
                   out |-> Returned(verify_arb_path(amount_borrow, fee_pool1, quote1, quote2))]
    /\ UNCHANGED <<pools, scan, now, bot, net, execVars>>

(***************************************************************************)
(* calculator.py: the golden section search for the borrow amount.         *)
(* Amounts and liquidity are in units of 10^14 wei.                        *)
(***************************************************************************)
\* calculator.py:41, RESPHI = 0.381966011250105 in millionths
RESPHI_PPM == 381966
\* max_iterations, calculator.py:324
SEARCH_MAX_ITERATIONS == 30
\* precision, calculator.py:322 (10^15 wei)
SEARCH_PRECISION == 10
\* the floor of min_amount, calculator.py:345 (10^15 wei)
SEARCH_MIN_FLOOR == 10

\* int() of the fraction numerator / denominator: truncation toward zero
IntOf(numerator, denominator) ==
    IF numerator >= 0 THEN numerator \div denominator
    ELSE -((-numerator) \div denominator)

\* int(high - RESPHI * (high - low)) and int(low + RESPHI * (high - low))
UpperPoint(low, high) == IntOf(high * 1000000 - RESPHI_PPM * (high - low), 1000000)
LowerPoint(low, high) == IntOf(low * 1000000 + RESPHI_PPM * (high - low), 1000000)

\* find_optimal_amount_in_fast lines 367-390: the loop, from the locals s
\* with n iterations left
RECURSIVE GoldenSection(_, _, _, _, _)
GoldenSection(s, n, pool_low, pool_high, borrow_token_is_token0) ==
    LET Profit(x) == calculate_v3_arb_profit_fast(x, pool_low, pool_high,
                                                  borrow_token_is_token0).profit
        Best(t, x, f) == IF f > t.best_profit
                         THEN [t EXCEPT !.best_amount = x, !.best_profit = f] ELSE t
    IN  IF n = 0 \/ s.high - s.low <= SEARCH_PRECISION THEN s
        ELSE IF s.f1 < s.f2
        THEN LET x2 == LowerPoint(s.x1, s.high)
                 f2 == Profit(x2)
             IN  GoldenSection(Best([s EXCEPT !.low = s.x1, !.x1 = s.x2, !.f1 = s.f2,
                                              !.x2 = x2, !.f2 = f2], x2, f2),
                               n - 1, pool_low, pool_high, borrow_token_is_token0)
        ELSE LET x1 == UpperPoint(s.low, s.x2)
                 f1 == Profit(x1)
             IN  GoldenSection(Best([s EXCEPT !.high = s.x2, !.x2 = s.x1, !.f2 = s.f1,
                                              !.x1 = x1, !.f1 = f1], x1, f1),
                               n - 1, pool_low, pool_high, borrow_token_is_token0)

\* find_optimal_amount_in_fast, calculator.py:317-392:
\* <<best_amount, best_profit>>
find_optimal_amount_in_fast(pool_low, pool_high, min_amount, max_amount, borrow_token_is_token0) ==
    LET max_safe == Min(pool_low.liquidity \div 10, pool_high.liquidity \div 10)
        high == IF max_safe > 0 /\ max_safe < max_amount THEN max_safe ELSE max_amount
        low == IF min_amount >= high THEN Max(high \div 10, SEARCH_MIN_FLOOR) ELSE min_amount
        x1 == UpperPoint(low, high)
        x2 == LowerPoint(low, high)
        f1 == calculate_v3_arb_profit_fast(x1, pool_low, pool_high, borrow_token_is_token0).profit
        f2 == calculate_v3_arb_profit_fast(x2, pool_low, pool_high, borrow_token_is_token0).profit
        s == GoldenSection([low |-> low, high |-> high, x1 |-> x1, x2 |-> x2, f1 |-> f1,
                            f2 |-> f2, best_amount |-> IF f1 > f2 THEN x1 ELSE x2,
                            best_profit |-> IF f1 > f2 THEN f1 ELSE f2],
                           SEARCH_MAX_ITERATIONS, pool_low, pool_high, borrow_token_is_token0)
    IN  <<s.best_amount, s.best_profit>>

\* QuoterVerifier.calculate_min_amount_out, calculator.py:730-748
calculate_min_amount_out(quoted_amount, slippage_bps) ==
    (quoted_amount * (10000 - slippage_bps)) \div 10000

\* the quotes and tolerances the slippage floors are computed for
QuotedAmounts == {0, 1, 2, 200, 201, 202, 10000, 100000}
SlippageBps == {0, 1, 50, 100, 9999, 10000, 10050}

\* a call of V3Executor._calculate_min_amount_out and one of
\* QuoterVerifier.calculate_min_amount_out on the same arguments
MinAmountOut ==
    /\ calc.op = "none"
    /\ \E quoted_amount \in QuotedAmounts, slippage_bps \in SlippageBps :
          calc' = [op |-> "calculate_min_amount_out",
                   args |-> <<quoted_amount, slippage_bps>>,
                   out |-> Returned([executor |-> _calculate_min_amount_out(quoted_amount,
                                                                            slippage_bps),
                                     verifier |-> calculate_min_amount_out(quoted_amount,
                                                                           slippage_bps)])]
    /\ UNCHANGED <<pools, scan, now, bot, net, execVars>>

(***************************************************************************)
(* calculator.py: L1FeeCalculator.  Fees are in gwei, scalar in units of   *)
(* 10^4 (1000000 is ScalarUnit).                                           *)
(***************************************************************************)
\* calculator.py:57
ESTIMATED_TX_DATA_SIZE == 500
\* 1000000 of the oracle's scalar
ScalarUnit == 100
\* the fallbacks of _refresh_cache and estimate_l1_fee: 30 gwei, 2100,
\* 1000000
FALLBACK_L1_BASE_FEE == 30
FALLBACK_OVERHEAD == 2100

\* what l1BaseFee(), overhead() and scalar() of the oracle answer: the three
\* values, or one of the calls raises
OracleAnswer(raised, l1BaseFee, overhead, scalar) ==
    [raised |-> raised, l1BaseFee |-> l1BaseFee, overhead |-> overhead, scalar |-> scalar]
OracleAnswers ==
    {OracleAnswer(TRUE, 0, 0, 0)}
        \cup {OracleAnswer(FALSE, b, o, k) : b \in {0, 1, 30}, o \in {0, 188, 2100},
                                             k \in {0, 68, ScalarUnit}}

\* L1FeeCalculator._refresh_cache, calculator.py:515-532, on a calculator
\* whose cache is empty or older than _cache_ttl: the cache after it
_refresh_cache(oracle) ==
    IF oracle.raised
    THEN [_cached_l1_base_fee |-> FALLBACK_L1_BASE_FEE, _cached_overhead |-> FALLBACK_OVERHEAD,
          _cached_scalar |-> ScalarUnit]
    ELSE [_cached_l1_base_fee |-> oracle.l1BaseFee, _cached_overhead |-> oracle.overhead,
          _cached_scalar |-> oracle.scalar]

\* Python's 'value or default'
Or(value, default) == IF value = 0 THEN default ELSE value

\* L1FeeCalculator.estimate_l1_fee, calculator.py:549-573
estimate_l1_fee(oracle, data_size) ==
    LET cache == _refresh_cache(oracle)
        data_gas == data_size * 10
        total_l1_gas == data_gas + Or(cache._cached_overhead, FALLBACK_OVERHEAD)
        scalar == Or(cache._cached_scalar, ScalarUnit)
        l1_base_fee == Or(cache._cached_l1_base_fee, FALLBACK_L1_BASE_FEE)
    IN  (l1_base_fee * total_l1_gas * scalar) \div ScalarUnit

\* L1FeeCalculator.get_total_tx_cost, calculator.py:575-591:
\* <<total_cost, l2_cost, l1_fee>>
get_total_tx_cost(oracle, l2_gas_used, l2_gas_price, tx_data_size) ==
    LET l2_cost == l2_gas_used * l2_gas_price
        l1_fee == estimate_l1_fee(oracle, tx_data_size)
    IN  <<l2_cost + l1_fee, l2_cost, l1_fee>>

\* calculate_safe_profit lines 814-823: the cost of a transaction from a
\* new L1FeeCalculator
TotalTxCost ==
    /\ calc.op = "none"
    /\ \E oracle \in OracleAnswers, l2_gas_used \in {250000, 350000}, l2_gas_price \in {0, 1, 2},
          tx_data_size \in {0, ESTIMATED_TX_DATA_SIZE} :
          calc' = [op |-> "get_total_tx_cost",
                   args |-> <<oracle, l2_gas_used, l2_gas_price, tx_data_size>>,
                   out |-> Returned(get_total_tx_cost(oracle, l2_gas_used, l2_gas_price,
                                                      tx_data_size))]
    /\ UNCHANGED <<pools, scan, now, bot, net, execVars>>

\* the pools, floors and caps the search is called with
SearchPools == {V3PoolData(s, l, 500) : s \in {1000, 1003}, l \in {0, 5, 50, 120}}
SearchMinAmounts == {1, 10, 100}
SearchMaxAmounts == {5, 12, 17}

\* a call of find_optimal_amount_in_fast
OptimalAmount ==
    /\ calc.op = "none"
    /\ \E pool_low \in SearchPools, pool_high \in SearchPools,
          min_amount \in SearchMinAmounts, max_amount \in SearchMaxAmounts :
          calc' = [op |-> "find_optimal_amount_in_fast",
                   args |-> <<pool_low, pool_high, min_amount, max_amount>>,
                   out |-> Returned(find_optimal_amount_in_fast(pool_low, pool_high, min_amount,
                                                                max_amount, TRUE))]
    /\ UNCHANGED <<pools, scan, now, bot, net, execVars>>

(***************************************************************************)
(* main.py: FlashArbBot's scan loop with the per-token cooldown list.      *)
(***************************************************************************)
\* main.py:83-85
COOLDOWN_SECONDS == 60
MAX_FAIL_COUNT == 3
LONG_COOLDOWN_SECONDS == 3600
\* scan cycles of one run
MaxBotCycles == 4

\* the non-borrowed tokens of the pairs the scanner watches
Tokens == {"BRETT", "DEGEN"}
\* an ArbitrageOpportunity as the loop reads it: _get_token_address(opp) and
\* whether profit_after_gas reaches min_profit_threshold
BotOpportunity(token, above) == [token |-> token, above |-> above]
\* what scanner.scan() may return in one cycle
ScanOpportunities ==
    {<<>>, <<BotOpportunity("BRETT", FALSE)>>, <<BotOpportunity("BRETT", TRUE)>>,
     <<BotOpportunity("BRETT", TRUE), BotOpportunity("BRETT", TRUE)>>,
     <<BotOpportunity("BRETT", TRUE), BotOpportunity("DEGEN", TRUE)>>}
\* how _execute_opportunity ends: a result (success, failed simulation with
\* no tx hash, on-chain revert, soft fail) or an exception
ExecutionOutcomes == {"success", "simulation", "revert", "soft_fail", "raised"}
\* time that passes between two cycles: the sleep of scan_interval (0.5 s),
\* or longer while the bot is paused
CycleTimes == {1, Sec(COOLDOWN_SECONDS), Sec(LONG_COOLDOWN_SECONDS)}

\* a token that is not in failed_opportunities
NoFailure == [timestamp |-> 0, count |-> 0, cooldown |-> 0]
\* FlashArbBot.__init__, main.py:246-263; failures_since_success counts, for
\* each token, the executions that failed since its last successful one
BotInit(dry_run) ==
    [dry_run |-> dry_run, running |-> TRUE, pc |-> "idle", scan_count |-> 0,
     opportunities |-> <<>>, failed_opportunities |-> [t \in Tokens |-> NoFailure],
     execution_count |-> 0, success_count |-> 0,
     failures_since_success |-> [t \in Tokens |-> 0],
     last |-> [token |-> "", step |-> "none", outcome |-> "none"]]

\* run lines 471-475 and _scan_and_execute lines 498-510: a cycle begins
\* and the scanner returns its opportunities
BotScan ==
    /\ bot.pc = "idle" /\ bot.running
    /\ bot.scan_count < MaxBotCycles
    /\ \E opportunities \in ScanOpportunities :
          bot' = [bot EXCEPT !.pc = "process", !.scan_count = @ + 1,
                             !.opportunities = opportunities]
    /\ UNCHANGED <<pools, scan, calc, now, net, execVars>>

\* a cooldown check that knows the short cooldown only
InCooldown_ShortOnly(fail_info, current_time) ==
    /\ fail_info # NoFailure
    /\ current_time - fail_info.timestamp < Sec(COOLDOWN_SECONDS)

\* _scan_and_execute lines 632-639: the token is in the list and its
\* cooldown has not elapsed
InCooldown(fail_info, current_time) ==
    /\ fail_info # NoFailure
    /\ current_time - fail_info.timestamp < fail_info.cooldown

\* an execution whose exception is not caught
TryExecuteOpportunity_NoCatch(outcome) ==
    [propagates |-> outcome = "raised", success |-> outcome = "success"]

\* _scan_and_execute lines 680-689: the exception of _execute_opportunity
\* becomes ExecutionResult(success=False)
TryExecuteOpportunity(outcome) ==
    [propagates |-> FALSE, success |-> outcome = "success"]

\* an entry whose count starts again once the cooldown of the previous
\* failure has elapsed
RecordFailure_ExpiryResets(fail_info, current_time) ==
    LET new_count == IF InCooldown(fail_info, current_time) THEN fail_info.count + 1 ELSE 1
    IN  [timestamp |-> current_time, count |-> new_count,
         cooldown |-> IF new_count >= MAX_FAIL_COUNT THEN Sec(LONG_COOLDOWN_SECONDS)
                      ELSE Sec(COOLDOWN_SECONDS)]

\* _scan_and_execute lines 755-782: the entry of the token after a failure
RecordFailure(fail_info, current_time) ==
    LET new_count == IF fail_info # NoFailure THEN fail_info.count + 1 ELSE 1
    IN  [timestamp |-> current_time, count |-> new_count,
         cooldown |-> IF new_count >= MAX_FAIL_COUNT THEN Sec(LONG_COOLDOWN_SECONDS)
                      ELSE Sec(COOLDOWN_SECONDS)]

\* _scan_and_execute lines 612-805, the body of the loop for the next
\* opportunity; an exception that leaves it ends run's loop (lines 480-487)
ProcessOpportunity ==
    /\ bot.pc = "process" /\ bot.opportunities # <<>>
    /\ LET opp == Head(bot.opportunities)
           current_time == now
           fail_info == bot.failed_opportunities[opp.token]
           Skip(step) == [bot EXCEPT !.opportunities = Tail(@),
                                     !.last = [token |-> opp.token, step |-> step,
                                               outcome |-> "none"]]
       IN  IF ~opp.above THEN bot' = Skip("threshold") /\ now' = now
           ELSE IF InCooldown(fail_info, current_time) THEN bot' = Skip("cooldown") /\ now' = now
           ELSE IF bot.dry_run THEN bot' = Skip("dry_run") /\ now' = now
           ELSE \E outcome \in ExecutionOutcomes :
                   LET r == TryExecuteOpportunity(outcome)
                       done == [token |-> opp.token, step |-> "executed", outcome |-> outcome]
                   IN  IF r.propagates
                       THEN /\ bot' = [bot EXCEPT !.running = FALSE, !.pc = "stopped",
                                                  !.last = done]
                            /\ now' = now
                       ELSE /\ bot' = [bot EXCEPT
                                  !.opportunities = Tail(@),
                                  !.success_count = @ + (IF r.success THEN 1 ELSE 0),
                                  !.execution_count = @ + 1,
                                  !.failed_opportunities[opp.token] =
                                      IF r.success THEN NoFailure
                                      ELSE RecordFailure(fail_info, current_time),
                                  !.failures_since_success[opp.token] =
                                      IF r.success THEN 0 ELSE @ + 1,
                                  !.last = done]
                            /\ now' = now + Sec(2)
    /\ UNCHANGED <<pools, scan, calc, net, execVars>>

\* run line 478: the sleep after the cycle
BotSleep ==
    /\ bot.pc = "process" /\ bot.opportunities = <<>>
    /\ bot' = [bot EXCEPT !.pc = "idle"]
    /\ \E d \in CycleTimes : now' = now + d
    /\ UNCHANGED <<pools, scan, calc, net, execVars>>

(***************************************************************************)
(* NetworkManager (src/core/network.py): endpoint list, health, failover   *)
(***************************************************************************)
\* ChainConfig.max_retries, its default
DEFAULT_MAX_RETRIES == 3
\* the longest endpoint list and the number of operations of one behaviour
MaxRpcs == 3
MaxOps == 2
\* self._web3 is None
NoRpc == -1

\* the endpoint lists: for each url, whether the endpoint answers at all
RpcLists == UNION {[1..n -> BOOLEAN] : n \in 1..MaxRpcs}

\* what one call of operation() does on an endpoint that answers
Outcomes == {"ok", "http_429", "http_5xx", "http_4xx", "connection_error",
             "web3_rate_limit", "web3_error"}
RateLimited == {"http_429", "web3_rate_limit"}
SwitchesRpc == {"http_5xx", "connection_error", "web3_error"}

\* RPCHealth, without the timestamps and the latency average
RPCHealth == [is_healthy |-> TRUE, consecutive_failures |-> 0, total_requests |-> 0]

\* a success that leaves the count of failures as it is
record_success_KeepsFailures(health) ==
    [health EXCEPT !.is_healthy = TRUE,
                   !.total_requests = @ + 1]

record_success(health) ==
    [health EXCEPT !.is_healthy = TRUE,
                   !.consecutive_failures = 0,
                   !.total_requests = @ + 1]

record_failure(health) ==
    LET failures == health.consecutive_failures + 1
    IN  [health EXCEPT !.consecutive_failures = failures,
                       !.total_requests = @ + 1,
                       !.is_healthy = IF failures >= 3 THEN FALSE ELSE @]

\* the locals of _execute_with_retry; url is the endpoint of the last attempt
NoCall == [status |-> "none", attempt |-> 0, last_error |-> "none", delay |-> 0, url |-> NoRpc]

\* NetworkManager.__init__; rpcs[i + 1] tells whether _rpc_urls[i] answers
NetInit(rpcs) ==
    [rpcs |-> rpcs,
     _max_retries |-> DEFAULT_MAX_RETRIES,
     _current_rpc_index |-> 0,
     _rpc_health |-> [i \in 0..(Len(rpcs) - 1) |-> RPCHealth],
     _web3 |-> NoRpc,
     _state |-> "disconnected",
     connects |-> 0,
     ops |-> 0,
     call |-> NoCall]

RpcCount(m) == Len(m.rpcs)
Answers(m, index) == m.rpcs[index + 1]

\* the url self._web3 was created for
_create_web3_instance(m) == [m EXCEPT !._web3 = m._current_rpc_index]

\* the loop of _switch_to_next_rpc: the index it stops at from its k-th
\* iteration on, NoRpc when it runs to its end
RECURSIVE FirstHealthy(_, _)
FirstHealthy(m, k) ==
    LET index == (m._current_rpc_index + k) % RpcCount(m)
    IN  IF k > RpcCount(m) THEN NoRpc
        ELSE IF m._rpc_health[index].is_healthy THEN index
        ELSE FirstHealthy(m, k + 1)

_switch_to_next_rpc_IgnoresHealth(m) ==
    _create_web3_instance(
        [m EXCEPT !._current_rpc_index = (m._current_rpc_index + 1) % RpcCount(m)])

_switch_to_next_rpc(m) ==
    LET found == FirstHealthy(m, 1)
    IN  IF found # NoRpc
        THEN _create_web3_instance([m EXCEPT !._current_rpc_index = found])
        ELSE [_create_web3_instance(
                 [m EXCEPT !._rpc_health =
                               [i \in DOMAIN m._rpc_health |->
                                   [m._rpc_health[i] EXCEPT !.is_healthy = TRUE,
                                                            !.consecutive_failures = 0]],
                           !._current_rpc_index =
                               (m._current_rpc_index + 1) % RpcCount(m)])
              EXCEPT !._state = "degraded"]

\* connect: the chain id is asked of the current endpoint and, when that
\* fails, once more after one switch
connect(m) ==
    LET first == _create_web3_instance([m EXCEPT !._state = "connecting"])
        second == _switch_to_next_rpc(first)
    IN  IF Answers(first, first._web3) THEN [first EXCEPT !._state = "connected"]
        ELSE IF Answers(second, second._web3) THEN [second EXCEPT !._state = "connected"]
        ELSE second

\* the delay of the exponential backoff, in ticks: _base_delay is 0.5 s,
\* _max_delay 30 s
BackoffDelay(attempt) ==
    LET delay == 2 ^ attempt
    IN  IF delay < Sec(30) THEN delay ELSE Sec(30)

\* one iteration of the loop of _execute_with_retry; after the last one the
\* loop ends and AllRPCsFailedError is raised
TryOperation(m, outcome) ==
    LET url == m._current_rpc_index
        attempt == m.call.attempt
        total_attempts == m._max_retries * RpcCount(m)
        next(status) == [status |-> IF status = "running" /\ attempt + 1 >= total_attempts
                                    THEN "AllRPCsFailedError" ELSE status,
                         attempt |-> attempt + 1,
                         last_error |-> outcome,
                         url |-> url,
                         delay |-> IF outcome \in RateLimited
                                   THEN BackoffDelay(attempt) ELSE 0]
    IN  CASE outcome = "ok" ->
                 [m EXCEPT !._rpc_health[url] = record_success(@),
                           !.call = [next("returned") EXCEPT !.last_error = "none"]]
          [] outcome \in RateLimited ->
                 [m EXCEPT !.call = next("running")]
          [] outcome = "http_4xx" ->
                 [m EXCEPT !.call = next("RPCError")]
          [] outcome \in SwitchesRpc ->
                 [_switch_to_next_rpc([m EXCEPT !._rpc_health[url] = record_failure(@)])
                  EXCEPT !.call = next("running")]

\* __aenter__ and create_network_manager: connect() on a manager that is
\* not connected
Connect ==
    /\ net._state = "disconnected"
    /\ net.call.status # "running"
    /\ net' = [connect(net) EXCEPT !.connects = 1]
    /\ UNCHANGED <<pools, scan, calc, now, bot, execVars>>

Disconnect ==
    /\ net._state # "disconnected"
    /\ net.call.status # "running"
    /\ net' = [net EXCEPT !._web3 = NoRpc, !._state = "disconnected"]
    /\ UNCHANGED <<pools, scan, calc, now, bot, execVars>>

\* a public read or send operation enters _execute_with_retry
ExecuteWithRetry ==
    /\ net._web3 # NoRpc
    /\ net.call.status # "running"
    /\ net.ops < MaxOps
    /\ net' = [net EXCEPT !.ops = @ + 1, !.call = [NoCall EXCEPT !.status = "running"]]
    /\ UNCHANGED <<pools, scan, calc, now, bot, execVars>>

\* an endpoint that does not answer gives a connection error
Attempt ==
    /\ net.call.status = "running"
    /\ \E outcome \in Outcomes :
          /\ Answers(net, net._web3) \/ outcome = "connection_error"
          /\ net' = TryOperation(net, outcome)
    /\ UNCHANGED <<pools, scan, calc, now, bot, execVars>>

(***************************************************************************)
(* Specifications                                                          *)
(***************************************************************************)
ExecInit(c) ==
    /\ cfg = c
    /\ _nonce = None
    /\ _nonce_time = 0
    /\ stats = [tx_count |-> 0, success_count |-> 0, total_profit |-> 0,
                private_tx_count |-> 0, failed_count |-> 0]
    /\ _current_rpc_index = 0
    /\ pc = [t \in Threads |-> "idle"]
    /\ loc = [t \in Threads |-> NoLoc]
    /\ result = [t \in Threads |-> NoResult]
    /\ now = 0
    /\ sent = <<>>
    /\ receipts = <<>>
    /\ log = [started |-> 0, issued |-> <<>>, replacement |-> "none"]

\* an executor that no bot loop drives
InitWith(c) ==
    /\ ExecInit(c)
    /\ pools = PoolsInit
    /\ scan = ScanInit(TRUE)
    /\ calc = CalcInit
    /\ bot = BotInit(TRUE)
    /\ net = NetInit(<<TRUE>>)

Init == \E c \in Configs : InitWith(c)

\* one caller, as in main.py and main_v3.py: the calls follow one another
Next ==
    \/ Execute(1)
    \/ SimulatePass(1)
    \/ SimulateFail(1)
    \/ Sign(1)
    \/ BroadcastStandard(1)
    \/ BroadcastPrivate(1)
    \/ ConfirmReceipt(1)
    \/ ConfirmTimeout(1)
    \/ MonitorSend(1)
    \/ MonitorLoop(1)
    \/ MonitorPoll(1)
    \/ MonitorSpeedUp(1)
    \/ MonitorFinal(1)
    \/ SimulateAndExecute(1)
    \/ BundleSimulate(1)
    \/ SimulateAndExecuteCall(1)
    \/ V3ArbExecute(1)
    \/ V3ArbSimulate(1)
    \/ V3ArbSend(1)
    \/ V3ArbConfirm(1)
    \/ Mine
    \/ Tick

Spec == Init /\ [][Next]_vars

\* two threads share one V3Executor (standard broadcast) and call it
\* concurrently; _nonce_lock makes each nonce operation one step
InitConc ==
    InitWith([Config("V3Executor", FALSE, FALSE, FALSE, FALSE, 40, MaxExec)
                 EXCEPT !.threads = Threads,
                        !.args = {c \in Calls : c.expected_swap_output > 0}])

NextConc ==
    \/ \E t \in Threads : Execute(t)
    \/ \E t \in Threads : SimulatePass(t)
    \/ \E t \in Threads : SimulateFail(t)
    \/ \E t \in Threads : Sign(t)
    \/ \E t \in Threads : BroadcastStandard(t)
    \/ \E t \in Threads : ConfirmReceipt(t)
    \/ \E t \in Threads : ConfirmTimeout(t)
    \/ Mine
    \/ Tick

SpecConc == InitConc /\ [][NextConc]_vars

(***************************************************************************)
(* Claims                                                                  *)
(***************************************************************************)
\* the simulation a call passed is the eth_call of its own transaction
Preflight(sim, tx) == sim.passed /\ sim.data = tx.data /\ sim.from = tx.from

\* C1: in strict mode a simulation is accepted, and its transaction signed
\* and broadcast, only if the counterparty's balance of the borrowed token
\* would strictly grow by the call.
C1_StrictNeedsGain ==
    cfg.STRICT_SIMULATION_CHECK =>
        /\ \A t \in Threads : pc[t] \in {"sign", "broadcast"} => loc[t].sim.delta > 0
        /\ \A h \in Hashes : sent[h].sim.delta > 0

\* C2: a transaction is signed and broadcast, publicly or privately, only
\* after the eth_call of the same startArbitrage calldata from the signer
\* returned without reverting; a call whose simulation failed broadcast
\* nothing.
C2_BroadcastAfterPreflight ==
    /\ \A t \in Threads :
          pc[t] \in {"sign", "broadcast", "v_send"} => Preflight(loc[t].sim, loc[t].tx)
    /\ \A h \in Hashes : Preflight(sent[h].sim, sent[h].tx)
    /\ \A t \in Threads :
          result[t].path = "simulation" => \A h \in Hashes : sent[h].lt # result[t].lt

\* C2 happens: one call broadcast privately after its simulation passed
C2_Witness_PrivateAfterPreflight ==
    \E h \in Hashes : sent[h].private /\ Preflight(sent[h].sim, sent[h].tx)

\* C3: every broadcast transaction carries a min_out above zero in its
\* swapData, whatever min_amount_out, expected_swap_output and amount the
\* caller passed and whichever entry point was used.
C3_MinOutPositive ==
    \A h \in Hashes : sent[h].tx.data.swapData.min_out > 0

\* the paths on which a call returns a failure without a mined transaction
FailurePaths == {"rpc", "simulation", "bundle", "raw", "broadcast", "confirm", "unconfirmed"}
\* thread t returns from a call in this step
Returns(t) == result'[t] # result[t]
\* the last nonce issued to call lt, with the pending count of that moment
LastIssue(lt) ==
    LET I == {i \in DOMAIN log.issued : log.issued[i].lt = lt}
    IN  log.issued[CHOOSE i \in I : \A j \in I : j <= i]

\* C4: a call that returns on a failure path (simulation error, bundle
\* rejection, raw-transaction extraction, broadcast error, RPC exception)
\* leaves the nonce cache at "must re-fetch": the next nonce issued is the
\* chain's pending transaction count.
C4_FailureResetsNonce ==
    [][\A t \in Threads :
          (Returns(t) /\ result'[t].path \in FailurePaths)
              => (_nonce' = None /\ NextNonce' = PendingCount')]_vars

\* C4 happens: a call returned on the bundle simulation's rejection
C4_Witness_BundleRejected ==
    \E t \in Threads : result[t].path = "bundle" /\ pc[t] = "idle" /\ _nonce = None

\* C5: when a call returns because its simulation failed, and the chain's
\* pending count is what it was when the call got its nonce, the next nonce
\* the executor issues is the nonce the failed call held.
C5_FailedSimulationKeepsNonce ==
    [][\A t \in Threads :
          (/\ Returns(t)
           /\ result'[t].path = "simulation"
           /\ PendingCount' = LastIssue(result'[t].lt).pending)
              => NextNonce' = result'[t].nonce]_vars

\* the broadcasts of one logical transaction: hash h replaces an earlier one
IsReplacement(h) == \E g \in DOMAIN sent : g < h /\ sent[g].lt = sent[h].lt
Original(h) ==
    sent[CHOOSE g \in DOMAIN sent :
            sent[g].lt = sent[h].lt /\ \A k \in DOMAIN sent : sent[k].lt = sent[h].lt => g <= k]
Previous(h) ==
    sent[CHOOSE g \in DOMAIN sent :
            /\ g < h /\ sent[g].lt = sent[h].lt
            /\ \A k \in DOMAIN sent : (k < h /\ sent[k].lt = sent[h].lt) => k <= g]
SameButFees(a, b) ==
    \A f \in {"from", "to", "value", "data", "nonce", "gas", "chainId", "accessList"} :
        a[f] = b[f]
\* gp raised k times by one and a half bump_pct
RECURSIVE RaisedAgain(_, _)
RaisedAgain(gp, k) ==
    IF k = 0 THEN gp
    ELSE RaisedAgain(_bump_gas_price(gp, TX_SPEEDUP_GAS_BUMP_PCT * 15)[1], k - 1)

\* C6: of two broadcast transactions of distinct logical transactions, the
\* one issued later carries the strictly larger nonce.
C6_NoncesFollowIssueOrder ==
    \A h1, h2 \in Hashes :
        sent[h1].lt < sent[h2].lt => sent[h1].tx.nonce < sent[h2].tx.nonce

C9_SpeedupCountBounded ==
    /\ \A t \in Threads :
          /\ loc[t].speedup_count <= TX_MAX_SPEEDUP_ATTEMPTS
          /\ result[t].speedup_attempts <= TX_MAX_SPEEDUP_ATTEMPTS
    /\ \A h \in Hashes :
          Cardinality({g \in Hashes : g > h /\ sent[g].lt = sent[h].lt})
              <= TX_MAX_SPEEDUP_ATTEMPTS

\* C9 happens: the monitor sent all the replacements it may send
C9_Witness_AllAttemptsUsed ==
    \E t \in Threads :
        /\ loc[t].speedup_count = TX_MAX_SPEEDUP_ATTEMPTS
        /\ Len(loc[t].tx_hashes_tried) = TX_MAX_SPEEDUP_ATTEMPTS + 1

\* C10: a poll that finds any broadcast hash of the logical transaction
\* mined returns confirmed, and a return that reports confirmation names a
\* hash of tx_hashes_tried that has a receipt.
C10_PollChecksEveryHash ==
    [][\A t \in Threads :
          /\ (/\ pc[t] = "m_poll"
              /\ now < loc[t].wait_end
              /\ \E h \in Hashes : sent[h].lt = loc[t].lt /\ h \in Mined
              /\ <<pc[t], loc[t], now>> # <<pc'[t], loc'[t], now'>>)
                 => (Returns(t) /\ result'[t].path = "success")
          /\ (/\ pc[t] \in {"m_poll", "m_speedup", "m_final"}
              /\ Returns(t)
              /\ result'[t].path = "success")
                 => \E i \in DOMAIN loc[t].tx_hashes_tried :
                       /\ loc[t].tx_hashes_tried[i] = result'[t].tx_hash
                       /\ result'[t].tx_hash \in Mined]_vars

\* C10 happens: the original was mined after a replacement had gone out, and
\* the monitor returned confirmed with the original's hash
C10_Witness_OriginalConfirmed ==
    \E t \in Threads :
        /\ result[t].path = "success"
        /\ result[t].speedup_attempts > 0
        /\ result[t].tx_hash \in Mined
        /\ ~IsReplacement(result[t].tx_hash)

(***************************************************************************)
(* A caller that trades through simulate_and_execute only, on a monitored  *)
(* V3Executor (default fee ceiling, legacy fee market).  The transaction   *)
(* of such a call carries the second nonce the call took, so no block can  *)
(* include it while the first is unused: Mine is never enabled and is left *)
(* out of the next-state relation.                                         *)
(***************************************************************************)
\* calls of simulate_and_execute in one run
MaxExecMon == 2

InitMon ==
    InitWith([Config("V3Executor", TRUE, TRUE, FALSE, FALSE, MAX_GAS_PRICE_GWEI, MaxExecMon)
                 EXCEPT !.args = {c \in Calls : c.expected_swap_output > 0},
                        !.gas_envs = {ge \in GasEnvs : ge.base_fee = None}])

NextMon ==
    \/ SimulateAndExecute(1)
    \/ BundleSimulate(1)
    \/ SimulateAndExecuteCall(1)
    \/ SimulatePass(1)
    \/ SimulateFail(1)
    \/ Sign(1)
    \/ MonitorSend(1)
    \/ MonitorLoop(1)
    \/ MonitorPoll(1)
    \/ MonitorSpeedUp(1)
    \/ MonitorFinal(1)

SpecMon == InitMon /\ [][NextMon]_vars

\* the call that broadcast h is over and no broadcast of its logical
\* transaction has a receipt
Unconfirmed(h) ==
    /\ \A t \in Threads : loc[t].lt # sent[h].lt
    /\ \A g \in Hashes : sent[g].lt = sent[h].lt => g \notin Mined
\* the nonce handed out in this step, when one is
IssuedNow == log'.issued[Len(log'.issued)]

\* C11: when the monitor ends on the final check without a confirmation,
\* execute returns a failure, and no later logical transaction is handed the
\* nonce of a transaction whose monitoring ended unconfirmed.
C11_TimedOutNonceStaysConsumed ==
    [][/\ \A t \in Threads :
             (/\ pc[t] = "m_final"
              /\ Returns(t)
              /\ FirstConfirmed(loc[t].tx_hashes_tried) = None)
                 => ~result'[t].success
       /\ Len(log'.issued) > Len(log.issued) =>
             \A h \in Hashes :
                 (Unconfirmed(h) /\ sent[h].lt < IssuedNow.lt)
                     => IssuedNow.nonce # sent[h].tx.nonce]_vars

\* C12: a transaction goes to the public mempool as a fallback only after
\* the private submission was tried on every configured private endpoint,
\* each failure being followed by a rotation to the next endpoint.
C12_FallbackAfterEveryEndpoint ==
    \A t \in Threads :
        loc[t].tx_mode_used = "public (fallback)" =>
            /\ {loc[t].private_posted[i] : i \in DOMAIN loc[t].private_posted}
                  = 0 .. (NumPrivateRpcs - 1)
            /\ \A i \in DOMAIN loc[t].private_posted :
                  i > 1 => loc[t].private_posted[i] = _rotate_rpc(loc[t].private_posted[i - 1])

\* C13: with a bundle simulator configured, a simulate_and_execute call goes
\* on to execute, and has its transaction broadcast, only if eth_callBundle
\* reported a positive coinbase diff and no reverted transaction.
C13_SubmitOnlyProfitableBundle ==
    \A t \in Threads :
        (/\ cfg.PRIVATE_TX_ENABLED /\ cfg.BUNDLE_SIMULATION_RPC
         /\ loc[t].entry = "simulate_and_execute"
         /\ pc[t] \in {"sae_execute", "simulate", "sign", "broadcast", "confirm"})
            => loc[t].bundle = "profit"

\* C14: the EIP-1559 fee pair a call builds for its transaction satisfies
\* maxPriorityFeePerGas <= maxFeePerGas <= the configured max gas price.
C14_FeePairOrdered ==
    \A t \in Threads :
        (pc[t] # "idle" /\ loc[t].gas_params.maxFeePerGas # None) =>
            /\ loc[t].gas_params.maxPriorityFeePerGas <= loc[t].gas_params.maxFeePerGas
            /\ loc[t].gas_params.maxFeePerGas <= cfg.max_gas_wei

(***************************************************************************)
(* The bot loop of main_v3.py over the scanner; the executor it owns is    *)
(* idle in this specification (its calls are the subject of Spec).         *)
(***************************************************************************)
InitScan ==
    /\ ExecInit(Config("V3ArbitrageExecutor", FALSE, FALSE, FALSE, FALSE, 1, MaxExec))
    /\ pools = PoolsInit
    /\ \E dry_run \in BOOLEAN : scan = ScanInit(dry_run)
    /\ calc = CalcInit
    /\ bot = BotInit(TRUE)
    /\ net = NetInit(<<TRUE>>)

NextScan ==
    \/ ScanStart
    \/ Aggregate3
    \/ AggregateFallback
    \/ ParseResults
    \/ FindOpportunities
    \/ HandleOpportunity
    \/ CycleEnd

SpecScan == InitScan /\ [][NextScan]_vars

(***************************************************************************)
(* Claims about the scan cycle, checked under SpecScan.                    *)
(***************************************************************************)
\* the state updater of the current cycle has returned
Updated == scan.cycle > 0 /\ scan.pc \in {"find", "handle", "report", "idle"}

\* C15: in every scan cycle the state updater issues exactly one RPC round
\* trip, whether the aggregate call succeeds or fails.
C15_OneRoundTripPerCycle == Updated => scan.rpcs = 1

\* C16: when the aggregate call fails the cycle is skipped: no field of any
\* pool is mutated and no opportunities are computed in that cycle.
C16_FailedAggregateSkipsCycle ==
    (Updated /\ scan.aggregate = "failed")
        => (pools = scan.prior
            /\ \A k \in DOMAIN scan.phases : scan.phases[k] # "ProfitEngine")

\* C17: the opportunity search never reads a pool whose sqrtPriceX96, tick
\* and prices come from one refresh and whose liquidity comes from another.
C17_NoTornSnapshot ==
    scan.pc = "find" => \A a \in PoolIds : pools[a].slot0_cycle = pools[a].liquidity_cycle

\* C18: in one cycle the state update precedes the profit search, the
\* profit search precedes the SafetyLayer, and an opportunity reaches the
\* Executor only after the SafetyLayer has completed for it.
C18_PhasesOrdered ==
    \A k \in DOMAIN scan.phases :
        /\ scan.phases[k] = "ProfitEngine"
              => \E j \in 1 .. k - 1 : scan.phases[j] = "StateUpdater"
        /\ scan.phases[k] = "SafetyLayer"
              => \E j \in 1 .. k - 1 : scan.phases[j] = "ProfitEngine"
        /\ scan.phases[k] = "Executor"
              => k > 1 /\ scan.phases[k - 1] = "SafetyLayer"

\* C19: every opportunity the search returns has a net profit strictly
\* greater than the minimum-profit floor the search was given.
C19_ReturnedAboveFloor ==
    \A k \in DOMAIN scan.opportunities :
        scan.opportunities[k].profit_after_fee > FIND_MIN_PROFIT_WEI

(***************************************************************************)
(* The search and the calculator functions as pure functions of a pool     *)
(* table and of their arguments.                                           *)
(***************************************************************************)
\* number of pools in a table
MaxPools == 3
\* a pool of the table after some refreshes
PoolStates(i) ==
    {[V3PoolInfo(i, "WETH", "USDC", PoolFee[i])
         EXCEPT !.sqrtPriceX96 = s, !.price_0_to_1 = ScannerPrice(s)[1],
                !.price_1_to_0 = ScannerPrice(s)[2], !.liquidity = l] :
        s \in CalcSqrtPrices, l \in {0, 1000}}
Tables == {<<p1, p2, p3>> : p1 \in PoolStates(1), p2 \in PoolStates(2), p3 \in PoolStates(3)}

InitCalc ==
    /\ ExecInit(Config("V3ArbitrageExecutor", FALSE, FALSE, FALSE, FALSE, 1, MaxExec))
    /\ pools \in Tables
    /\ scan = ScanInit(TRUE)
    /\ calc = CalcInit
    /\ bot = BotInit(TRUE)
    /\ net = NetInit(<<TRUE>>)

NextCalc ==
    \/ Search
    \/ QuickProfitCheck
    \/ SwapMath

SpecCalc == InitCalc /\ [][NextCalc]_vars

\* C20: a pool with sqrtPriceX96 = 0 is skipped without raising: no
\* opportunity the search returns refers to such a pool, the spread
\* prefilter answers 'no profit' for it and the swap math returns zero
\* output for it.
C20_ZeroPricePoolSkipped ==
    /\ ~calc.out.raised
    /\ calc.op = "find_opportunities"
          => \A k \in DOMAIN calc.out.value :
                /\ pools[calc.out.value[k].pool_a].sqrtPriceX96 # 0
                /\ pools[calc.out.value[k].pool_b].sqrtPriceX96 # 0
    /\ (calc.op = "quick_profit_check_fast"
          /\ (calc.args[1].sqrtPriceX96 = 0 \/ calc.args[2].sqrtPriceX96 = 0))
          => calc.out.value = <<FALSE, <<0, 1>>>>
    /\ (calc.op = "get_v3_amount_out_fast" /\ calc.args[2].sqrtPriceX96 = 0)
          => calc.out.value = <<0, 0>>

\* the search found an opportunity between two priced pools while a third
\* pool with enough liquidity had sqrtPriceX96 = 0
C20_Witness_SearchPassesZeroPool ==
    /\ calc.op = "find_opportunities"
    /\ calc.out.value # <<>>
    /\ \E a \in DOMAIN pools :
          pools[a].sqrtPriceX96 = 0 /\ pools[a].liquidity >= MIN_LIQUIDITY

\* C21: the list of opportunities the search returns is sorted by
\* descending net profit.
C21_SortedByNetProfit ==
    calc.op = "find_opportunities"
        => \A j, k \in DOMAIN calc.out.value :
              j < k => calc.out.value[j].profit_after_fee >= calc.out.value[k].profit_after_fee

(***************************************************************************)
(* The profit calculation with safety checks as a pure function of its     *)
(* arguments and of the quoter's answers.                                  *)
(***************************************************************************)
InitSafe ==
    /\ ExecInit(Config("V3ArbitrageExecutor", FALSE, FALSE, FALSE, FALSE, 1, MaxExec))
    /\ pools = PoolsInit
    /\ scan = ScanInit(TRUE)
    /\ calc = CalcInit
    /\ bot = BotInit(TRUE)
    /\ net = NetInit(<<TRUE>>)

NextSafe ==
    \/ SafeProfit
    \/ VerifyArbPath

SpecSafe == InitSafe /\ [][NextSafe]_vars

\* a quoter call that was made and failed
QuoteFailed(quotes) == \E k \in DOMAIN quotes : ~quotes[k].success

QuotedNetProfit ==
    calc.args.quote2.amount_out
        - (calc.args.amount_in + (calc.args.amount_in * calc.args.pool_borrow.fee) \div FEE_DENOMINATOR)
        - (calc.args.l2_cost + calc.args.l1_fee)

\* C23: calculate_safe_profit marks an opportunity profitable only if
\* quoter_swap2_out - (amount_in + flash_fee) - total_tx_cost, computed
\* from the quoter's outputs, exceeds the minimum-profit floor.
C23_ProfitableOnlyByQuotes ==
    (calc.op = "calculate_safe_profit" /\ calc.out.value.profitable)
        => /\ calc.out.value.quoter_verified
           /\ QuotedNetProfit > MIN_PROFIT_AFTER_L1_FEE

\* C23, amended: a call of calculate_safe_profit with skip_quoter = False
\* marks an opportunity profitable only if quoter_swap2_out - (amount_in +
\* flash_fee) - total_tx_cost, computed from the quoter's outputs, exceeds
\* the minimum-profit floor, and reports that value as net_profit.
C23_ProfitableOnlyByQuotesUnlessSkipped ==
    (calc.op = "calculate_safe_profit" /\ ~calc.args.skip_quoter /\ calc.out.value.profitable)
        => /\ calc.out.value.quoter_verified
           /\ calc.out.value.net_profit = QuotedNetProfit
           /\ QuotedNetProfit > MIN_PROFIT_AFTER_L1_FEE

\* an opportunity with a flash fee that the local estimate puts at a loss
\* is marked profitable on the quoter's outputs
C23_Witness_ProfitableByQuotes ==
    /\ calc.op = "calculate_safe_profit"
    /\ ~calc.args.skip_quoter
    /\ calc.out.value.profitable
    /\ calc.out.value.flash_fee > 0
    /\ ~calculate_v3_arb_profit_fast(calc.args.amount_in, calc.args.pool_borrow,
                                     calc.args.pool_swap,
                                     calc.args.borrow_token_is_token0).profitable

(***************************************************************************)
(* The scan loop of main.py; what the executor does inside                 *)
(* _execute_opportunity is the subject of Spec.                            *)
(***************************************************************************)
InitBot ==
    /\ ExecInit(Config("V3Executor", FALSE, FALSE, FALSE, FALSE, MAX_GAS_PRICE_GWEI, MaxExec))
    /\ pools = PoolsInit
    /\ scan = ScanInit(TRUE)
    /\ calc = CalcInit
    /\ \E dry_run \in BOOLEAN : bot = BotInit(dry_run)
    /\ net = NetInit(<<TRUE>>)

NextBot ==
    \/ BotScan
    \/ ProcessOpportunity
    \/ BotSleep

SpecBot == InitBot /\ [][NextBot]_vars

\* the cooldown that applies after count consecutive failures
CooldownFor(count) ==
    IF count >= MAX_FAIL_COUNT THEN Sec(LONG_COOLDOWN_SECONDS) ELSE Sec(COOLDOWN_SECONDS)

\* C24: while a token's cooldown (short, or long after MAX_FAIL_COUNT
\* consecutive failures) has not elapsed since its last recorded failure,
\* no execution (simulation, signing, broadcast) is attempted for an
\* opportunity involving that token.
C24_CooldownSkips ==
    [][bot'.execution_count # bot.execution_count
          => LET fail_info == bot.failed_opportunities[Head(bot.opportunities).token]
             IN  \/ fail_info = NoFailure
                 \/ now - fail_info.timestamp >= CooldownFor(fail_info.count)]_vars

\* an opportunity was skipped for a token in its long cooldown after the
\* short one had elapsed
C24_Witness_SkippedInLongCooldown ==
    /\ bot.last.step = "cooldown"
    /\ bot.failed_opportunities[bot.last.token].count >= MAX_FAIL_COUNT
    /\ now - bot.failed_opportunities[bot.last.token].timestamp >= Sec(COOLDOWN_SECONDS)

InitNet ==
    /\ ExecInit(Config("V3Executor", FALSE, FALSE, FALSE, FALSE, MAX_GAS_PRICE_GWEI, MaxExec))
    /\ pools = PoolsInit
    /\ scan = ScanInit(TRUE)
    /\ calc = CalcInit
    /\ bot = BotInit(TRUE)
    /\ \E rpcs \in RpcLists : net = NetInit(rpcs)

NextNet ==
    \/ Connect
    \/ Disconnect
    \/ ExecuteWithRetry
    \/ Attempt

SpecNet == InitNet /\ [][NextNet]_vars

\* an attempt of _execute_with_retry ended in an HTTP 5xx response or a
\* connection error
FailoverStep ==
    /\ net.call.status = "running"
    /\ net'.call.attempt = net.call.attempt + 1
    /\ net'.call.last_error \in {"http_5xx", "connection_error"}

FailureRecorded(url) ==
    net'._rpc_health[url].total_requests = net._rpc_health[url].total_requests + 1

\* the marks of the endpoints once the failure of the current one is recorded
HealthyAfterFailure(index) ==
    /\ net._rpc_health[index].is_healthy
    /\ index = net._current_rpc_index
          => net._rpc_health[index].consecutive_failures + 1 < 3

\* how far index is behind url in the cyclic order of the list
Distance(url, index) == ((index - url) + RpcCount(net)) % RpcCount(net)

\* C26 (as stated): an HTTP 5xx response or a connection error records a
\* failure against the current endpoint, and the operation goes on with the
\* next endpoint of the list, a different one whenever the list has more
\* than one endpoint.
C26_FailoverToDifferentEndpoint ==
    [][FailoverStep
          => LET url == net._current_rpc_index
             IN  /\ FailureRecorded(url)
                 /\ net'._web3 = net'._current_rpc_index
                 /\ RpcCount(net) > 1 => net'._current_rpc_index # url]_vars

\* C26 (amended): the failure is recorded against the current endpoint and
\* the operation goes on with the next endpoint in the cyclic order of the
\* list that is marked healthy: a different endpoint whenever another one is
\* marked healthy, the same endpoint when it is the only one still marked
\* healthy, and, when none is left, the endpoint after the current one, with
\* every mark reset to healthy.
C26_FailoverToNextHealthyEndpoint ==
    [][FailoverStep
          => LET url == net._current_rpc_index
                 new == net'._current_rpc_index
                 others == {i \in DOMAIN net._rpc_health : i # url /\ HealthyAfterFailure(i)}
             IN  /\ FailureRecorded(url)
                 /\ net'._web3 = new
                 /\ others # {}
                       => /\ new \in others
                          /\ \A i \in others : Distance(url, new) <= Distance(url, i)
                 /\ (others = {} /\ HealthyAfterFailure(url)) => new = url
                 /\ (others = {} /\ ~HealthyAfterFailure(url))
                       => /\ new = (url + 1) % RpcCount(net)
                          /\ \A i \in DOMAIN net._rpc_health :
                                net'._rpc_health[i].is_healthy]_vars

\* a server error on an endpoint of a longer list, after which the operation
\* is retried on that same endpoint: the others are marked unhealthy
C26_Witness_RetryOnSameEndpoint ==
    /\ net.call.status = "running"
    /\ net.call.last_error = "http_5xx"
    /\ RpcCount(net) > 1
    /\ net._current_rpc_index = net.call.url
    /\ net._rpc_health[net.call.url].is_healthy
    /\ \E i \in DOMAIN net._rpc_health : ~net._rpc_health[i].is_healthy

\* C27: when the first endpoints of the list do not answer and a later one
\* does, connect() on a new manager ends in state CONNECTED with an endpoint
\* that answers as the current one.
C27_ConnectSkipsUnreachable ==
    [][(/\ net.connects = 0 /\ net'.connects = 1
        /\ ~Answers(net, 0)
        /\ \E i \in DOMAIN net._rpc_health : Answers(net, i))
          => /\ net'._state = "connected"
             /\ Answers(net', net'._current_rpc_index)]_vars

(***************************************************************************)
(* The executor again: what a returned result says about the chain         *)
(***************************************************************************)
\* C28: a call reports success for a broadcast transaction, or counts a
\* trade in success_count, only when the mined receipt of the transaction it
\* reports has status = 1, on every broadcast path.
C28_SuccessOnlyWithStatusOne ==
    [][\A t \in Threads :
          (/\ result'[t] # result[t]
           /\ \/ result'[t].success /\ result'[t].tx_hash # None
              \/ stats'.success_count > stats.success_count)
             => /\ result'[t].tx_hash \in DOMAIN receipts'
                /\ receipts'[result'[t].tx_hash] = 1]_vars

\* C29: a simulate_and_execute call that broadcasts consumes one nonce: every
\* transaction it broadcasts carries the nonce of the transaction it built,
\* signed and bundle-simulated, which is every nonce the call was handed.
C29_BroadcastNonceIsSimulatedNonce ==
    \A h \in Hashes :
        \A i \in DOMAIN log.issued :
            log.issued[i].lt = sent[h].lt => log.issued[i].nonce = sent[h].tx.nonce

\* C30: when send_and_monitor returns with exactly two hashes tried, the
\* original h1 without a receipt and the one replacement h2 mined with
\* status 1, the result reports success, tx hash h2, one speed-up, and as
\* final_gas_price the bumped fee the replacement carries.
C30_ReplacementReported ==
    [][\A t \in Threads :
          (/\ pc[t] \in {"m_poll", "m_speedup", "m_final"}
           /\ Returns(t)
           /\ Len(loc[t].tx_hashes_tried) = 2
           /\ loc[t].tx_hashes_tried[1] \notin Mined
           /\ loc[t].tx_hashes_tried[2] \in Mined
           /\ receipts[loc[t].tx_hashes_tried[2]] = 1)
             => /\ result'[t].success
                /\ result'[t].tx_hash = loc[t].tx_hashes_tried[2]
                /\ result'[t].speedup_attempts = 1
                /\ result'[t].final_gas_price
                      = FeeOf(sent[loc[t].tx_hashes_tried[2]].tx.gp)]_vars

(***************************************************************************)
(* The monitor's handling of a rejected replacement                        *)
(***************************************************************************)
\* thread t sends a replacement in this step and the node gives answer
Replaces(t, answer) ==
    /\ pc[t] = "m_speedup" /\ pc'[t] # "m_speedup"
    /\ SpeedUpAllowed(loc[t].attempt)
    /\ _bump_gas_price(loc[t].current_gas_params, TX_SPEEDUP_GAS_BUMP_PCT * 10)[2]
    /\ log'.replacement = answer

NearCapCeilingGwei == 11

InitRepl ==
    InitWith([Config("V3Executor", TRUE, TRUE, FALSE, FALSE, NearCapCeilingGwei, 1)
                 EXCEPT !.price_bump = 25,
                        !.args = {c \in Calls : c.expected_swap_output > 0}])

NextRepl ==
    \/ Execute(1)
    \/ SimulatePass(1)
    \/ SimulateFail(1)
    \/ Sign(1)
    \/ MonitorSend(1)
    \/ MonitorLoop(1)
    \/ MonitorPoll(1)
    \/ MonitorSpeedUp(1)
    \/ MonitorFinal(1)
    \/ Mine

SpecRepl == InitRepl /\ [][NextRepl]_vars

SpecReplLive ==
    SpecRepl /\ WF_vars(MonitorLoop(1) \/ MonitorPoll(1) \/ MonitorSpeedUp(1) \/ MonitorFinal(1))

Monitoring == {"m_loop", "m_poll", "m_speedup", "m_final"}

\* C33: send_and_monitor terminates.  Every pass of its loop starts a wait of
\* at least TX_SPEEDUP_INTERVAL and reaches the replacement only once that
\* wait is over, a pass that does not end on "replacement underpriced"
\* counts an attempt, the loop is never inside a pass later than one wait
\* after TX_TOTAL_TIMEOUT, and a call that is monitoring returns.
C33_MonitorTerminates ==
    /\ [][\A t \in Threads :
             /\ (pc[t] = "m_loop" /\ pc'[t] = "m_poll")
                   => loc'[t].wait_end >= now + Sec(TX_SPEEDUP_INTERVAL)
             /\ (pc[t] = "m_speedup" /\ pc'[t] = "m_loop")
                   => /\ now >= loc[t].wait_end
                      /\ \/ loc'[t].attempt = loc[t].attempt + 1
                         \/ log'.replacement = "replacement underpriced"
             /\ pc'[t] \in Monitoring
                   => now' - loc'[t].start_time
                         <= Sec(TX_TOTAL_TIMEOUT) + Sec(TX_INITIAL_WAIT)]_vars
    /\ \A t \in Threads : (pc[t] \in Monitoring) ~> (pc[t] = "idle")

\* the monitor gave up on the total timeout with attempts to spare: the
\* node had rejected its replacements as underpriced
C33_Witness_TimedOutOnUnderpriced ==
    \E t \in Threads :
        /\ pc[t] = "m_final"
        /\ loc[t].attempt <= TX_MAX_SPEEDUP_ATTEMPTS
        /\ now - loc[t].start_time > Sec(TX_TOTAL_TIMEOUT)
        /\ log.replacement = "replacement underpriced"


(***************************************************************************)
(* A pool whose read failed inside a successful aggregate call, checked    *)
(* under SpecScan.                                                         *)
(***************************************************************************)
\* the slot0 or the liquidity sub-call of the pool failed or returned too few
\* bytes in the batch being parsed
PoolReadFailed(a) ==
    LET slot0_result == scan.results[2 * IndexOf(a) - 1]
        liquidity_result == scan.results[2 * IndexOf(a)]
    IN  \/ ~(slot0_result.success /\ slot0_result.data.len >= 64)
        \/ ~(liquidity_result.success /\ liquidity_result.data.len >= 32)

\* the fields of a pool that update_pool_data may write
PoolState(pool) ==
    <<pool.sqrtPriceX96, pool.tick, pool.price_0_to_1, pool.price_1_to_0,
      pool.liquidity, pool.last_update>>

\* C34: when the aggregate call succeeded and the slot0 or liquidity sub-call
\* of one pool failed or returned too few bytes, update_pool_data leaves that
\* pool's sqrtPriceX96, tick, prices, liquidity and last_update as they were.
C34_FailedPoolReadLeavesPoolUntouched ==
    [][(scan.pc = "parse" /\ scan'.pc # "parse" /\ scan.aggregate \in {"aggregate3", "fallback"})
          => \A a \in PoolIds :
                PoolReadFailed(a) => PoolState(pools'[a]) = PoolState(pools[a])]_vars


(***************************************************************************)
(* The cooldown chosen after a failed execution, checked under SpecBot.    *)
(***************************************************************************)
\* the step is an execution for the token that did not succeed
FailedExecution(token) ==
    /\ bot'.execution_count = bot.execution_count + 1
    /\ bot'.success_count = bot.success_count
    /\ Head(bot.opportunities).token = token

\* C35: after each failed execution for a token the cooldown recorded for
\* it is the long cooldown exactly when the number of its failures since
\* its last successful trade has reached MAX_FAIL_COUNT, and the short
\* cooldown otherwise; the elapsing of a cooldown does not restart the count.
C35_LongCooldownAtMaxFailCount ==
    [][\A token \in Tokens :
          FailedExecution(token)
              => LET fail_info == bot'.failed_opportunities[token]
                     failures == bot'.failures_since_success[token]
                 IN  /\ fail_info.timestamp = now
                     /\ (fail_info.cooldown = Sec(LONG_COOLDOWN_SECONDS))
                            <=> (failures >= MAX_FAIL_COUNT)
                     /\ (fail_info.cooldown = Sec(COOLDOWN_SECONDS))
                            <=> (failures < MAX_FAIL_COUNT)]_vars

\* the third failure in a row of a token, each after the cooldown of the
\* one before had elapsed, put it into the long cooldown
C35_Witness_LongCooldownAfterThirdFailure ==
    /\ bot.last.step = "executed" /\ bot.last.outcome # "success"
    /\ bot.failures_since_success[bot.last.token] = MAX_FAIL_COUNT
    /\ bot.failed_opportunities[bot.last.token].cooldown = Sec(LONG_COOLDOWN_SECONDS)
    /\ bot.success_count > 0


(***************************************************************************)
(* The sizing functions of calculator.py and the slippage floors, each     *)
(* called once on inputs drawn from bounded sets.                          *)
(***************************************************************************)
InitSize ==
    /\ ExecInit(Config("V3Executor", FALSE, FALSE, FALSE, FALSE, MAX_GAS_PRICE_GWEI, MaxExec))
    /\ pools = PoolsInit
    /\ scan = ScanInit(TRUE)
    /\ calc = CalcInit
    /\ bot = BotInit(TRUE)
    /\ net = NetInit(<<TRUE>>)

NextSize ==
    \/ OptimalAmount
    \/ MinAmountOut
    \/ TotalTxCost

SpecSize == InitSize /\ [][NextSize]_vars

\* x_max of a call: the lesser of the cap and one tenth of the smaller
\* liquidity
XMax(pool_low, pool_high, max_amount) ==
    Min(max_amount, Min(pool_low.liquidity, pool_high.liquidity) \div 10)

\* C36: the borrow amount the optimal-amount search returns never exceeds
\* x_max, the lesser of the configured cap and one tenth of the smaller of
\* the two pools' liquidity, whatever min_amount and the liquidity are.
C36_BorrowAmountWithinXMax ==
    calc.op = "find_optimal_amount_in_fast"
        => calc.out.value[1] <= XMax(calc.args[1], calc.args[2], calc.args[4])


\* C37: for every quoted amount above 0 and every slippage_bps, the
\* slippage floor is quoted_amount * (10000 - slippage_bps) / 10000,
\* truncated, and raised to at least 1, in V3Executor._calculate_min_amount_out
\* and in QuoterVerifier.calculate_min_amount_out: neither returns 0.
C37_SlippageFloorAtLeastOne ==
    (calc.op = "calculate_min_amount_out" /\ calc.args[1] > 0)
        => LET floor == Max(1, IntOf(calc.args[1] * (10000 - calc.args[2]), 10000))
           IN  /\ calc.out.value.executor = floor
               /\ calc.out.value.verifier = floor


\* C38: the total transaction cost is l2_gas * l2_gas_price + L1BaseFee *
\* (10 * calldata_size + overhead) * scalar / 10^6, in integer division,
\* for every l1BaseFee, overhead and scalar the oracle returns, 0 included.
C38_TotalCostFollowsOracle ==
    (calc.op = "get_total_tx_cost" /\ ~calc.args[1].raised)
        => LET oracle == calc.args[1]
               l2_cost == calc.args[2] * calc.args[3]
               l1_fee == (oracle.l1BaseFee * (10 * calc.args[4] + oracle.overhead)
                             * oracle.scalar) \div ScalarUnit
           IN  calc.out.value = <<l2_cost + l1_fee, l2_cost, l1_fee>>


(***************************************************************************)
(* The health marks of the endpoints, checked under SpecNet.               *)
(***************************************************************************)
\* an attempt of _execute_with_retry ended in an error that records a
\* failure and leaves every endpoint marked unhealthy
AllUnhealthyStep ==
    /\ net.call.status = "running"
    /\ net'.call.attempt = net.call.attempt + 1
    /\ net'.call.last_error \in SwitchesRpc
    /\ \A i \in DOMAIN net._rpc_health : ~HealthyAfterFailure(i)

\* an attempt of _execute_with_retry succeeded
SuccessStep ==
    /\ net.call.status = "running"
    /\ net'.call.status = "returned"

\* C39: an endpoint is marked unhealthy if and only if its count of
\* consecutive failures is at least 3; a recorded success, and the reset
\* made when every endpoint is unhealthy, leave it healthy with a count of 0.
C39_UnhealthyIffThreeFailures ==
    /\ [](\A i \in DOMAIN net._rpc_health :
             ~net._rpc_health[i].is_healthy <=> net._rpc_health[i].consecutive_failures >= 3)
    /\ [][/\ SuccessStep
              => LET health == net'._rpc_health[net._current_rpc_index]
                 IN  /\ health.is_healthy /\ health.consecutive_failures = 0
                     /\ health.total_requests
                            = net._rpc_health[net._current_rpc_index].total_requests + 1
          /\ AllUnhealthyStep
              => \A i \in DOMAIN net._rpc_health :
                    /\ net'._rpc_health[i].is_healthy
                    /\ net'._rpc_health[i].consecutive_failures = 0]_vars

\* after a reset of all marks, an endpoint has failed three times in a row
\* again and is unhealthy, while another one has answered and is healthy
C39_Witness_UnhealthyAfterReset ==
    /\ net._state = "degraded"
    /\ \E i, j \in DOMAIN net._rpc_health :
          /\ ~net._rpc_health[i].is_healthy
          /\ net._rpc_health[i].consecutive_failures = 3
          /\ net._rpc_health[j].is_healthy
          /\ net._rpc_health[j].consecutive_failures = 0
          /\ net.call.status = "returned"
          /\ net.call.url = j


(***************************************************************************)
(* The dry run of execute and execute_v3_arbitrage, checked under Spec.    *)
(***************************************************************************)
\* the step is a whole call with dry_run = True: it starts and returns
DryRun(t) ==
    /\ pc[t] = "idle"
    /\ Returns(t)
    /\ result'[t].path = "dry_run"

\* C40: an execution with dry_run = True changes no executor state: nothing
\* is broadcast, tx_count and success_count keep their values, the nonce
\* cache is as it was, and the nonce the next execution is given is the one
\* it would have been given without the dry run.
C40_DryRunChangesNothing ==
    [][\A t \in Threads :
          DryRun(t) => /\ sent' = sent
                       /\ stats' = stats
                       /\ _nonce' = _nonce /\ _nonce_time' = _nonce_time
                       /\ NextNonce' = NextNonce]_vars

====
